---- MODULE Spec2Model ----
(***************************************************************************)
(* trellgo: export of a Trello board to a directory tree.                  *)
(*                                                                         *)
(* The model covers the concurrent card pipeline (dumpABoard,              *)
(* processCardsConcurrently, processCardWorker), the per-card job          *)
(* (processSingleCard and the processCard* renderers), the error handler   *)
(* (handleProcessingError) and the path computation (SanitizePathName).    *)
(*                                                                         *)
(* The remote service and the file system are the environment: every       *)
(* fetch and every write has an outcome chosen by the environment.         *)
(***************************************************************************)
EXTENDS Integers, Sequences, FiniteSets, Bags, TLC

(***************************************************************************)
(* Bounds of the model.                                                    *)
(***************************************************************************)
\* largest number of cards the board's card fetch returns
MaxCards == 2
\* largest number of fields of a job's environment that differ from the
\* nominal environment (all fetches and writes succeed, all collections
\* non-empty)
MaxDeviations == 2
\* largest number of board IDs given to main
MaxBoards == 2
\* largest number of cards of a board whose jobs are numbers
MaxLoad == 7
\* jobs that run side by side on the buffer pool, jobs started in all, and
\* buffers allocated in all
MaxPoolJobs == 2
MaxPoolRuns == 3
MaxBuffers == 3
\* longest name that is written out character by character
MaxShortName == 3
\* longest tail of a name that fills the length limit, and how far before
\* the limit the tail may start
MaxTail == 2

(***************************************************************************)
(* Program constants.                                                      *)
(***************************************************************************)
MaxWorkers == 5
MaxNameLen == 240

(***************************************************************************)
(* Strings are sequences of one-character strings.                         *)
(***************************************************************************)
IllegalChars == {"<", ">", ":", "\"", "/", "\\", "|", "?", "*"}
TrimChars == {" ", ".", "_", "-"}

\* regexp.ReplaceAllString(name, "-") for the class [<>:"/\\|?*]
ReplaceIllegal(name) ==
    [i \in 1..Len(name) |-> IF name[i] \in IllegalChars THEN "-" ELSE name[i]]

RECURSIVE TrimLeft(_)
TrimLeft(s) ==
    IF s = <<>> THEN s
    ELSE IF Head(s) \in TrimChars THEN TrimLeft(Tail(s)) ELSE s

RECURSIVE TrimRight(_)
TrimRight(s) ==
    IF s = <<>> THEN s
    ELSE IF s[Len(s)] \in TrimChars THEN TrimRight(SubSeq(s, 1, Len(s) - 1)) ELSE s

\* strings.Trim(cleaned, " ._-")
Trim(s) == TrimRight(TrimLeft(s))

\* time.Now().Format("20060102-150405"); the clock is an input, t in 0..9
Timestamp(t) ==
    <<"2", "0", "2", "5", "0", "6", "1", "6", "-", "1", "2", "0", "0", "0">>
        \o <<CHOOSE d \in {"0", "1", "2", "3", "4", "5", "6", "7", "8", "9"} :
                d = ToString(t % 10)>>

FallbackPrefix ==
    <<"B", "o", "a", "r", "d", "-", "W", "a", "s", "-", "I", "l", "l", "e", "g",
      "a", "l", "-", "C", "h", "a", "r", "a", "c", "t", "e", "r", "s", "-">>

\* SanitizePathName(name), evaluated when the clock reads now
SanitizePathName(name, now) ==
    LET cleaned == Trim(ReplaceIllegal(name))
        nonEmpty == IF cleaned = <<>> THEN FallbackPrefix \o Timestamp(now)
                    ELSE cleaned
    IN  IF Len(nonEmpty) > MaxNameLen THEN SubSeq(nonEmpty, 1, MaxNameLen)
        ELSE nonEmpty

ArchivedSuffix == <<" ", "(", "A", "R", "C", "H", "I", "V", "E", "D", ")">>

\* a target directory that puts every closed card under ARCHIVED
CardPathSplitAlways(storagePath, boardPath, cleanListPath, card, separateArchived, now) ==
    LET cleanCardPath == SanitizePathName(card.name, now)
    IN  IF card.closed
        THEN <<storagePath, boardPath, <<"A", "R", "C", "H", "I", "V", "E", "D">>,
               cleanListPath, cleanCardPath>>
        ELSE <<storagePath, boardPath, cleanListPath, cleanCardPath>>

\* a path is the sequence of its segments (filepath.Join of clean segments)
\* the target directory of a regular card, processRegularCard
CardPath(storagePath, boardPath, cleanListPath, card, separateArchived, now) ==
    LET cleanCardPath == SanitizePathName(card.name, now)
    IN  IF card.closed
        THEN IF ~separateArchived
             THEN <<storagePath, boardPath, cleanListPath,
                    cleanCardPath \o ArchivedSuffix>>
             ELSE <<storagePath, boardPath, <<"A", "R", "C", "H", "I", "V", "E", "D">>,
                    cleanListPath, cleanCardPath>>
        ELSE <<storagePath, boardPath, cleanListPath, cleanCardPath>>


\* strings.ReplaceAll(s, old, "") on sequences of characters
RECURSIVE RemoveAll(_, _)
RemoveAll(s, old) ==
    IF Len(s) < Len(old) THEN s
    ELSE IF SubSeq(s, 1, Len(old)) = old
         THEN RemoveAll(SubSeq(s, Len(old) + 1, Len(s)), old)
         ELSE <<Head(s)>> \o RemoveAll(Tail(s), old)

\* the file a link card is written to, processLinkCard
LinkCardPath(storagePath, boardPath, cleanListPath, card, now) ==
    LET c0 == SanitizePathName(card.name, now)
        c1 == RemoveAll(c0, <<"h", "t", "t", "p", "s", "-", "-", "-">>)
        c2 == RemoveAll(c1, <<"h", "t", "t", "p", "-", "-", "-">>)
    IN  <<storagePath, boardPath, cleanListPath,
          <<"L", "i", "n", "k", " ", "C", "a", "r", "d", "s", " ", "O", "n", "l", "y">>,
          <<"C", "A", "R", "D", " ", "-", " ">> \o c2 \o <<".", "m", "d">>>>

(***************************************************************************)
(* The environment of one job: what the card holds and how every fetch     *)
(* and write of the job ends.                                              *)
(***************************************************************************)
OkFail == {"ok", "fail"}
Source == {"nil", "empty", "some"}
Fetched == {"fail", "empty", "some"}

\* a checklist of the card: IDCheckLists entry, GetChecklist outcome, name,
\* os.WriteFile outcome
Checklist(id, fetch, name, write) ==
    [id |-> id, fetch |-> fetch, name |-> name, write |-> write]

ChecklistCases ==
    { <<>>,
      <<Checklist("c1", "ok", "Tasks", "ok")>>,
      <<Checklist("c1", "ok", "Tasks", "ok"), Checklist("c2", "ok", "Tasks", "ok")>>,
      <<Checklist("c1", "ok", "Tasks", "ok"), Checklist("c2", "ok", "Tasks", "ok"),
        Checklist("c3", "ok", "Tasks", "ok")>>,
      <<Checklist("c1", "ok", "Tasks 1", "ok"), Checklist("c2", "ok", "Tasks", "ok"),
        Checklist("c3", "ok", "Tasks", "ok")>>,
      <<Checklist("c1", "fail", "Tasks", "ok"), Checklist("c2", "ok", "Other", "ok")>>,
      <<Checklist("", "ok", "Tasks", "ok"), Checklist("c2", "ok", "Tasks", "fail")>> }

EnvDomain ==
    [ listFetch     |-> OkFail,
      listDir       |-> OkFail,
      role          |-> {"regular", "link", "error"},
      linkDir       |-> OkFail,
      linkWrite     |-> OkFail,
      comp          |-> OkFail,
      lightAtt      |-> Source,
      lightActions  |-> {"nil", "empty", "other", "comments"},
      lightMembers  |-> Source,
      lightLabels   |-> Source,
      cardDir       |-> OkFail,
      descWrite     |-> OkFail,
      att           |-> Source,
      attFetch      |-> Fetched,
      attDir        |-> OkFail,
      download      |-> {"none", "ok", "fail"},
      attWrite      |-> OkFail,
      chkDir        |-> OkFail,
      chk           |-> ChecklistCases,
      actions       |-> {"nil", "empty", "other", "comments"},
      commentsFetch |-> Fetched,
      commentsWrite |-> OkFail,
      members       |-> Source,
      membersFetch  |-> Fetched,
      usersWrite    |-> OkFail,
      labels        |-> Source,
      labelsFetch   |-> Fetched,
      labelsWrite   |-> OkFail,
      historyFetch  |-> Fetched,
      historyWrite  |-> OkFail,
      due           |-> {"nil", "set", "complete"},
      dueWrite      |-> OkFail,
      start         |-> {"nil", "set"},
      startWrite    |-> OkFail,
      cover         |-> {"nil", "color", "image"},
      coverWrite    |-> OkFail ]

EnvFields == DOMAIN EnvDomain

\* every fetch and write succeeds, every collection holds something
NominalEnv ==
    [ listFetch |-> "ok", listDir |-> "ok", role |-> "regular", linkDir |-> "ok",
      linkWrite |-> "ok", comp |-> "ok", cardDir |-> "ok", descWrite |-> "ok",
      lightAtt |-> "nil", lightActions |-> "nil", lightMembers |-> "nil",
      lightLabels |-> "nil",
      att |-> "some", attFetch |-> "some", attDir |-> "ok", download |-> "ok",
      attWrite |-> "ok", chkDir |-> "ok",
      chk |-> <<Checklist("c1", "ok", "Tasks", "ok")>>,
      actions |-> "comments", commentsFetch |-> "some", commentsWrite |-> "ok",
      members |-> "some", membersFetch |-> "some", usersWrite |-> "ok",
      labels |-> "some", labelsFetch |-> "some", labelsWrite |-> "ok",
      historyFetch |-> "some", historyWrite |-> "ok",
      due |-> "set", dueWrite |-> "ok", start |-> "set", startWrite |-> "ok",
      cover |-> "color", coverWrite |-> "ok" ]

\* the environments that differ from the nominal one in at most k fields
RECURSIVE Deviations(_)
Deviations(k) ==
    IF k = 0 THEN {NominalEnv}
    ELSE LET S == Deviations(k - 1)
         IN  S \cup UNION { UNION { { [e EXCEPT ![f] = v] : v \in EnvDomain[f] }
                                     : f \in EnvFields }
                             : e \in S }


(***************************************************************************)
(* One job.  A job is the sequence of its effects (events), whether it     *)
(* returned a non-nil error, and whether it ended the process (os.Exit).   *)
(***************************************************************************)
\* arg names the resource or the file; stem is the variable part of a file
\* name (a checklist's name), empty for the fixed names
Event(op, arg, stem, ok) == [op |-> op, arg |-> arg, stem |-> stem, ok |-> ok]

NewJob == [events |-> <<>>, err |-> FALSE, exit |-> FALSE]

Ev(js, op, arg, ok) == [js EXCEPT !.events = Append(@, Event(op, arg, <<>>, ok))]

EvStem(js, op, arg, stem, ok) ==
    [js EXCEPT !.events = Append(@, Event(op, arg, stem, ok))]

Fail(js) == [js EXCEPT !.err = TRUE]

\* the statement  errorWarnOnCompletion = true
SetErrorWarn(js) == Ev(js, "flag", "errorWarnOnCompletion", TRUE)

\* the rest of a function runs only when nothing before it returned an error
\* or ended the process
Then(js, F(_)) == IF js.err \/ js.exit THEN js ELSE F(js)

\* dirCreate(path): os.Stat, os.MkdirAll, os.Exit(1) when MkdirAll fails
dirCreate(js, path, outcome) ==
    IF outcome = "ok" THEN Ev(js, "mkdir", path, TRUE)
    ELSE [Ev(js, "mkdir", path, FALSE) EXCEPT !.exit = TRUE]

\* os.WriteFile(path, ...), the error returned to the caller
WriteFile(js, path, outcome) == Ev(js, "write", path, outcome = "ok")

\* _ = os.WriteFile(path, nil, ...): an empty file, the error discarded
TouchFile(js, path, outcome) == Ev(js, "touch", path, outcome = "ok")

\* a call of the remote service
Fetch(js, what, ok) == Ev(js, "fetch", what, ok)

\* errors: nil, a ProcessingError of some severity, or any other error
NilError == [proc |-> FALSE, sev |-> "nil"]
ProcessingError(sev) == [proc |-> TRUE, sev |-> sev]
PlainError == [proc |-> FALSE, sev |-> "plain"]
Severities == {"Warning", "Error", "Critical"}

\* the severity handleProcessingError acts on: an error that is no
\* ProcessingError is wrapped as a Warning
HandledSeverity(err) == IF err.proc THEN err.sev ELSE "Warning"

\* a handler that returns every error it is given, a Warning too
handleProcessingErrorStrict(js, err) ==
    IF err = NilError THEN js
    ELSE LET sev == HandledSeverity(err)
             logged == Ev(js, "handle", sev, TRUE)
         IN  IF sev = "Critical" THEN Fail(SetErrorWarn(logged)) ELSE Fail(logged)

\* handleProcessingError(err, config): the job afterwards, js.err telling
\* whether the handler returned a non-nil error
handleProcessingError(js, err) ==
    IF err = NilError THEN js
    ELSE LET sev == HandledSeverity(err)
             logged == Ev(js, "handle", sev, TRUE)
         IN  CASE sev = "Warning" -> logged
               [] sev = "Error" -> Fail(logged)
               [] sev = "Critical" -> Fail(SetErrorWarn(logged))
               [] OTHER -> Fail(logged)


(***************************************************************************)
(* The renderers of a regular card.  Each takes the job so far and the     *)
(* job's environment e and gives the job after it.                         *)
(***************************************************************************)
processCardDescription(js, e) ==
    LET w == WriteFile(js, "CardDescription.md", e.descWrite)
    IN  IF e.descWrite = "fail"
        THEN handleProcessingError(w, ProcessingError("Critical"))
        ELSE w

processCardAttachments(js, e) ==
    LET fetched == IF e.att = "nil"
                   THEN Fetch(js, "attachments", e.attFetch # "fail")
                   ELSE js
        attachments == IF e.att = "nil" THEN e.attFetch ELSE e.att
    IN  IF attachments = "fail"
        THEN handleProcessingError(fetched, ProcessingError("Warning"))
        ELSE IF attachments = "some"
        THEN LET d == dirCreate(fetched, "attachments", e.attDir)
                 dl == IF e.download = "none" THEN d
                       ELSE Ev(d, "download", "attachment", e.download = "ok")
                 w == WriteFile(dl, "attachments/URL-Attachments.md", e.attWrite)
             IN  IF d.exit THEN d
                 ELSE IF e.attWrite = "fail"
                 THEN handleProcessingError(w, ProcessingError("Critical"))
                 ELSE w
        ELSE dirCreate(fetched, "attachments", e.attDir)

\* strconv.Itoa
RECURSIVE Itoa(_)
Itoa(n) == IF n < 10 THEN <<ToString(n)>> ELSE Itoa(n \div 10) \o <<ToString(n % 10)>>

\* os.Stat(fullpath) finds the file: an earlier write of the job created it
FileExists(js, arg, stem) ==
    \E i \in 1..Len(js.events) :
        /\ js.events[i].op = "write" /\ js.events[i].ok
        /\ js.events[i].arg = arg /\ js.events[i].stem = stem

StrChars(name) ==
    CASE name = "Tasks" -> <<"T", "a", "s", "k", "s">>
      [] name = "Tasks 1" -> <<"T", "a", "s", "k", "s", " ", "1">>
      [] name = "Other" -> <<"O", "t", "h", "e", "r">>
      [] OTHER -> <<"x">>

\* the loop of processCardChecklists over card.IDCheckLists from index i on
RECURSIVE ChecklistLoop(_, _, _, _)
ChecklistLoop(js, chk, i, cardNumber) ==
    IF i > Len(chk) \/ js.err THEN js
    ELSE IF chk[i].id = "" THEN ChecklistLoop(js, chk, i + 1, cardNumber)
    ELSE LET f == Fetch(js, "checklist", chk[i].fetch = "ok")
         IN  IF chk[i].fetch = "fail" THEN ChecklistLoop(f, chk, i + 1, cardNumber)
             ELSE LET checklistName == SanitizePathName(StrChars(chk[i].name), 0)
                      exists == FileExists(f, "checklists", checklistName)
                      number == IF exists THEN cardNumber + 1 ELSE cardNumber
                      stem == IF exists THEN checklistName \o <<" ">> \o Itoa(number)
                              ELSE checklistName
                      w == EvStem(f, "write", "checklists", stem, chk[i].write = "ok")
                  IN  IF chk[i].write = "fail" THEN Fail(SetErrorWarn(w))
                      ELSE ChecklistLoop(w, chk, i + 1, number)

processCardChecklists(js, e) ==
    LET d == dirCreate(js, "checklists", e.chkDir)
    IN  IF d.exit THEN d ELSE ChecklistLoop(d, e.chk, 1, 0)

\* a renderer that writes an empty file when the fetch of its collection failed
RenderCollectionAlways(js, items, file, write) ==
    IF items = "some"
    THEN LET w == WriteFile(js, file, write)
         IN  IF write = "fail" THEN Fail(SetErrorWarn(w)) ELSE w
    ELSE TouchFile(js, file, write)

\* a renderer that writes one Markdown file from a collection: the
\* collection (or "fail" when its fetch failed), the file, the write's outcome
RenderCollection(js, items, file, write) ==
    IF items = "fail" THEN js
    ELSE IF items = "some"
    THEN LET w == WriteFile(js, file, write)
         IN  IF write = "fail" THEN Fail(SetErrorWarn(w)) ELSE w
    ELSE TouchFile(js, file, write)

processCardComments(js, e) ==
    LET fetched == IF e.actions = "nil"
                   THEN Fetch(js, "comments", e.commentsFetch # "fail")
                   ELSE js
        comments == IF e.actions = "nil" THEN e.commentsFetch
                    ELSE IF e.actions = "comments" THEN "some" ELSE "empty"
    IN  RenderCollection(fetched, comments, "CardComments.md", e.commentsWrite)

processCardUsers(js, e) ==
    LET fetched == IF e.members = "nil"
                   THEN Fetch(js, "members", e.membersFetch # "fail")
                   ELSE js
        members == IF e.members = "nil" THEN e.membersFetch ELSE e.members
    IN  RenderCollection(fetched, members, "CardUsers.md", e.usersWrite)

processCardLabels(js, e) ==
    LET fetched == IF e.labels = "nil"
                   THEN Fetch(js, "labels", e.labelsFetch # "fail")
                   ELSE js
        labels == IF e.labels = "nil" THEN e.labelsFetch ELSE e.labels
    IN  RenderCollection(fetched, labels, "CardLabels.md", e.labelsWrite)

processCardHistory(js, e) ==
    LET fetched == IF e.actions = "nil"
                   THEN Fetch(js, "history", e.historyFetch # "fail")
                   ELSE js
        history == IF e.actions = "nil" THEN e.historyFetch
                   ELSE IF e.actions = "empty" THEN "empty" ELSE "some"
    IN  RenderCollection(fetched, history, "CardHistory.md", e.historyWrite)

\* the second half of processCardDates: the start date
processCardStartDate(js, e) ==
    IF e.start = "set"
    THEN LET w == WriteFile(js, "CardStartDate.md", e.startWrite)
         IN  IF e.startWrite = "fail" THEN Fail(SetErrorWarn(w)) ELSE w
    ELSE TouchFile(js, "CardStartDate.md", e.startWrite)

processCardDates(js, e) ==
    IF e.due # "nil"
    THEN LET dueFileName == IF e.due = "complete" THEN "CardDueDate (Completed).md"
                            ELSE "CardDueDate.md"
             w == WriteFile(js, dueFileName, e.dueWrite)
         IN  IF e.dueWrite = "fail" THEN Fail(SetErrorWarn(w))
             ELSE processCardStartDate(w, e)
    ELSE processCardStartDate(TouchFile(js, "CardDueDate.md", e.dueWrite), e)

\* a cover renderer that ignores the error of its write
processCardCoverIgnoringWrite(js, e) ==
    IF e.cover = "color" THEN WriteFile(js, "CardCoverColor.md", e.coverWrite) ELSE js

processCardCover(js, e) ==
    IF e.cover = "color"
    THEN LET w == WriteFile(js, "CardCoverColor.md", e.coverWrite)
         IN  IF e.coverWrite = "fail" THEN Fail(w) ELSE w
    ELSE js


\* a card whose renderers all run, whatever the ones before them returned
processRegularCardThrough(js, e) ==
    LET Go(j, F(_)) == IF j.exit THEN j ELSE F(j)
        d == dirCreate(js, "card", e.cardDir)
        s1 == Go(d, LAMBDA j : processCardDescription(j, e))
        s2 == Go(s1, LAMBDA j : processCardAttachments(j, e))
        s3 == Go(s2, LAMBDA j : processCardChecklists(j, e))
        s4 == Go(s3, LAMBDA j : processCardComments(j, e))
        s5 == Go(s4, LAMBDA j : processCardUsers(j, e))
        s6 == Go(s5, LAMBDA j : processCardLabels(j, e))
        s7 == Go(s6, LAMBDA j : processCardHistory(j, e))
        s8 == Go(s7, LAMBDA j : processCardDates(j, e))
    IN  Go(s8, LAMBDA j : processCardCover(j, e))

processRegularCard(js, e) ==
    LET d == dirCreate(js, "card", e.cardDir)
        s1 == Then(d, LAMBDA j : processCardDescription(j, e))
        s2 == Then(s1, LAMBDA j : processCardAttachments(j, e))
        s3 == Then(s2, LAMBDA j : processCardChecklists(j, e))
        s4 == Then(s3, LAMBDA j : processCardComments(j, e))
        s5 == Then(s4, LAMBDA j : processCardUsers(j, e))
        s6 == Then(s5, LAMBDA j : processCardLabels(j, e))
        s7 == Then(s6, LAMBDA j : processCardHistory(j, e))
        s8 == Then(s7, LAMBDA j : processCardDates(j, e))
    IN  Then(s8, LAMBDA j : processCardCover(j, e))

\* a link card given a directory and the files of a regular card
processLinkCardAsRegular(js, e) == processRegularCard(js, e)

processLinkCard(js, e) ==
    LET d == dirCreate(js, "Link Cards Only", e.linkDir)
        w == WriteFile(d, "CARD.md", e.linkWrite)
    IN  IF d.exit THEN d
        ELSE IF e.linkWrite = "fail" THEN Fail(SetErrorWarn(w)) ELSE w

\* a classification that takes a card whose role is unknown for a link card
isLinkCardUnlessRegular(e) == e.role # "regular"

\* isLinkCard(client, card.ID): the fetch of cardRole; an error gives false
isLinkCard(e) == e.role = "link"

\* a card object that holds the collections although the comprehensive fetch
\* failed
CardDataAlwaysFull(e) == e

\* the card object processRegularCard is given: the comprehensive card
\* (att, actions, members, labels), or the card of the board's card list
\* (lightAtt, ...) when the comprehensive fetch failed
CardData(e) ==
    IF e.comp = "ok" THEN e
    ELSE [e EXCEPT !.att = e.lightAtt, !.actions = e.lightActions,
                   !.members = e.lightMembers, !.labels = e.lightLabels]

\* a body that creates the card's directory and writes its files before it
\* asks for the card's role
ProcessListedCardUnclassified(js, e) ==
    LET d == dirCreate(js, "list", e.listDir)
        r == processRegularCard(Fetch(d, "comprehensive", e.comp = "ok"), CardData(e))
    IN  IF d.exit \/ r.exit THEN r
        ELSE Fetch(r, "cardRole", e.role # "error")

\* the body of processSingleCard after the list lookup
ProcessListedCard(js, e) ==
    LET d == dirCreate(js, "list", e.listDir)
        c == Fetch(d, "cardRole", e.role # "error")
    IN  IF d.exit THEN d
        ELSE IF isLinkCard(e) THEN processLinkCard(c, e)
        ELSE processRegularCard(Fetch(c, "comprehensive", e.comp = "ok"), CardData(e))

\* defer putBuffer(buff): runs when processSingleCard returns, not on os.Exit
putBuffer(js) == IF js.exit THEN js ELSE Ev(js, "putBuffer", "buff", TRUE)

\* a job that goes on without the list when GetList failed
processSingleCardWithoutList(cached, e) ==
    LET b == Ev(NewJob, "getBuffer", "buff", TRUE)
        c == Ev(b, "lookup", "listCache", cached)
        l == IF cached THEN c ELSE Fetch(c, "list", e.listFetch = "ok")
    IN  putBuffer(ProcessListedCard(l, e))

\* a job that gives its buffer back before it works with it
processSingleCardEarlyPut(cached, e) ==
    LET b == putBuffer(Ev(NewJob, "getBuffer", "buff", TRUE))
        c == Ev(b, "lookup", "listCache", cached)
        l == IF cached THEN c ELSE Fetch(c, "list", e.listFetch = "ok")
    IN  IF ~cached /\ e.listFetch = "fail"
        THEN handleProcessingError(l, ProcessingError("Critical"))
        ELSE ProcessListedCard(l, e)

\* processSingleCard(job): cached tells whether listCache holds card.IDList
processSingleCard(cached, e) ==
    LET b == Ev(NewJob, "getBuffer", "buff", TRUE)
        c == Ev(b, "lookup", "listCache", cached)
        l == IF cached THEN c ELSE Fetch(c, "list", e.listFetch = "ok")
    IN  putBuffer(IF ~cached /\ e.listFetch = "fail"
                  THEN handleProcessingError(l, ProcessingError("Critical"))
                  ELSE ProcessListedCard(l, e))

(***************************************************************************)
(* What a finished job looks like from outside.                            *)
(***************************************************************************)
Range(f) == { f[i] : i \in DOMAIN f }

HasEvent(js, op, ok) ==
    \E i \in 1..Len(js.events) : js.events[i].op = op /\ js.events[i].ok = ok

\* the files and directories of the card that exist after the job
Created(js) ==
    { [arg |-> js.events[i].arg, stem |-> js.events[i].stem] :
        i \in { k \in 1..Len(js.events) :
                  js.events[k].op \in {"write", "touch", "mkdir"} /\ js.events[k].ok } }

Present(js, name) == [arg |-> name, stem |-> <<>>] \in Created(js)

\* the sub-resources of a card that a renderer fetches when the card data
\* does not hold them
SubResources == {"attachments", "checklist", "comments", "members", "labels", "history"}

\* how the job came by the card's list: "cache" from listCache, "fetch" by
\* GetList, "failed" when GetList failed
ListLookup(js) ==
    IF Event("lookup", "listCache", <<>>, TRUE) \in Range(js.events) THEN "cache"
    ELSE IF Event("fetch", "list", <<>>, TRUE) \in Range(js.events) THEN "fetch"
    ELSE "failed"

\* the job as the pipeline sees it: the value put on the results channel,
\* whether it ended the process, whether it assigned errorWarnOnCompletion,
\* and which failures of the environment it met
Outcome(js) ==
    [ err |-> js.err,
      exit |-> js.exit,
      flag |-> HasEvent(js, "flag", TRUE),
      writeFailed |-> HasEvent(js, "write", FALSE),
      touchFailed |-> HasEvent(js, "touch", FALSE),
      fetchFailed |-> \E i \in 1..Len(js.events) :
                         /\ js.events[i].op = "fetch" /\ ~js.events[i].ok
                         /\ js.events[i].arg \in SubResources,
      otherFailed |-> \E i \in 1..Len(js.events) :
                         /\ js.events[i].op \in {"fetch", "download"} /\ ~js.events[i].ok
                         /\ js.events[i].arg \in {"cardRole", "comprehensive", "attachment"},
      listFailed |-> \E i \in 1..Len(js.events) :
                        js.events[i] = Event("fetch", "list", <<>>, FALSE),
      lookup |-> ListLookup(js) ]

CardEnvs == Deviations(MaxDeviations)

\* the outcomes of processSingleCard over the environments of the model
JobOutcomes == [cached \in BOOLEAN |-> { Outcome(processSingleCard(cached, e)) : e \in CardEnvs }]


(***************************************************************************)
(* The board's cards.                                                      *)
(***************************************************************************)
\* the lists of the board that createListCache gets from GetLists
BoardLists == {"L1"}

Card(name, idList, closed) == [name |-> name, idList |-> idList, closed |-> closed]

\* the cards a board can hold: "a" and "a/" sanitize to the same segment;
\* list "L2" is not among the lists GetLists returns
BoardCards ==
    { Card(<<"a">>, "L1", FALSE), Card(<<"a", "/">>, "L1", FALSE),
      Card(<<"b">>, "L2", FALSE) }

\* the card lists a fetch of the board's cards can return
CardLists == UNION { [1..n -> BoardCards] : n \in 0..MaxCards }

\* a lookup that finds every list once the cache holds a list
InCacheWhenPopulated(cache, idList) == cache # {}

\* list, exists := listCache[card.IDList]
InCache(cache, idList) == idList \in cache

\* a job that keeps the list it fetched in the cache
CacheAfterJobKeeping(cache, idList) == cache \cup {idList}

\* the cache after a job: processSingleCard reads the map and assigns
\* nothing to it
CacheAfterJob(cache, idList) == cache

\* a worker goroutine: where it stands ("recv", "process", "flag", "send",
\* "add", "exited"), the job it holds (0: none), and the outcome of that job
Worker(at, job, err, flag) == [pc |-> at, job |-> job, err |-> err, flag |-> flag]

IdleWorker == Worker("recv", 0, FALSE, FALSE)
ExitedWorker == Worker("exited", 0, FALSE, FALSE)

(***************************************************************************)
(* State.                                                                  *)
(***************************************************************************)
VARIABLES
    pc,          \* where dumpABoard (and processCardsConcurrently) stands
    alive,       \* FALSE once os.Exit ended the process
    exports,     \* the board-level exports that are over, well or badly
    errorWarnOnCompletion,
    cards,       \* the cards of the board, once fetched
    listCache,   \* the IDs of the cached lists
    jobs,        \* the jobs channel: indices of cards
    jobsClosed,
    results,     \* the results channel
    resultsClosed,
    processed,   \* the progress counter
    workers,     \* the worker goroutines, a bag: they run the same code and
                 \* nothing tells one from another
    dpc,         \* the goroutine that sends the jobs: "off", "send", "close", "done"
    di,          \* its loop index
    cpc,         \* the goroutine that closes results: "off", "wait", "done"
    ri,          \* the run loop's index i
    errorCount,
    failures,    \* history: the kinds of failure the environment produced
    history,     \* history: per job, what happened to it
    cardEnv,     \* a single job run on its own: its environment,
    cardCached,  \*   whether listCache holds its list,
    cardJob,     \*   the job (NewJob until it has run),
    handled,     \*   and a call of handleProcessingError: the error, the result
    listOfBoards,\* main: the number of board IDs requested
    bi,          \* main: the number of board IDs its loop has taken up
    flagAtCall,  \* errorWarnOnCompletion as processCardsConcurrently found it
    rawName,     \* a name as the service gives it,
    firstClean,  \*   SanitizePathName of it (<<>> before the call),
    secondClean, \*   SanitizePathName of that,
    targetDir,   \*   and the directory of a regular card of that name
    bufferPool,  \* the buffers the pool holds,
    buffers,     \*   every buffer allocated so far: its length and capacity,
    running,     \*   the jobs that run side by side, as far as buffers go,
    discarded,   \*   the buffers putBuffer did not give back,
    reused,      \*   the buffers getBuffer took from the pool,
    poolRuns,    \*   the number of jobs started,
    poolUp,      \*   FALSE once os.Exit ended the process
    load         \* the worker pool under many cards, jobs as numbers

pipeVars == <<pc, alive, exports, errorWarnOnCompletion, cards, listCache, jobs, jobsClosed,
              results, resultsClosed, processed, workers, dpc, di, cpc, ri,
              errorCount, failures, history>>

cardVars == <<cardEnv, cardCached, cardJob, handled>>

mainVars == <<listOfBoards, bi, flagAtCall>>

\* what the pipeline of one board leaves alone
pathVars == <<rawName, firstClean, secondClean, targetDir>>

poolVars == <<bufferPool, buffers, running, discarded, reused, poolRuns, poolUp>>

loadVars == <<load>>

sideVars == <<cardVars, mainVars, pathVars, poolVars, loadVars>>

vars == <<pipeVars, sideVars>>

numCards == Len(cards)

NoHistory == [created |-> 0, received |-> 0, delivered |-> 0, counted |-> 0,
              flagged |-> FALSE, err |-> FALSE, exited |-> FALSE, kinds |-> {},
              lookup |-> "none"]

NotHandled == [err |-> NilError, after |-> NewJob]

\* the locals of one call of dumpABoard and processCardsConcurrently
CallInit ==
    /\ flagAtCall = FALSE
    /\ exports = {}
    /\ cards = <<>>
    /\ listCache = {}
    /\ jobs = <<>>
    /\ jobsClosed = FALSE
    /\ results = <<>>
    /\ resultsClosed = FALSE
    /\ processed = 0
    /\ workers = EmptyBag
    /\ dpc = "off"
    /\ di = 0
    /\ cpc = "off"
    /\ ri = 0
    /\ errorCount = 0
    /\ failures = {}
    /\ history = [j \in 1..MaxCards |-> NoHistory]

PipeInit ==
    /\ pc = "board"
    /\ alive = TRUE
    /\ errorWarnOnCompletion = FALSE
    /\ CallInit

\* no job is run on its own
CardIdle ==
    /\ cardEnv = NominalEnv
    /\ cardCached = TRUE
    /\ cardJob = NewJob
    /\ handled = NotHandled

\* main has taken up the one board requested
OneBoard == listOfBoards = 1 /\ bi = 1

\* no name is sanitized on its own
PathIdle ==
    /\ rawName = <<>>
    /\ firstClean = <<>>
    /\ secondClean = <<>>
    /\ targetDir = <<>>

\* a job as far as its buffer goes: the steps it has left ("get", "use",
\* "put"), whether it ends the process, the buffer it was given (0: none),
\* the calls of getBuffer and putBuffer it has made, its last step
BufferJob(steps, exit, buf, gets, puts, last) ==
    [steps |-> steps, exit |-> exit, buf |-> buf, gets |-> gets, puts |-> puts,
     last |-> last]

NoBufferJob == BufferJob(<<>>, FALSE, 0, 0, 0, "none")

\* processCardsConcurrently with the jobs as numbers: numCards, the jobs
\* and the results in their channels, whether the channels are closed, the
\* workers at each place of their loop, the cards the dispatcher has sent
\* and the results the run loop has taken, where processCardsConcurrently
\* stands, and whether the process is up
NoLoad ==
    [ numCards |-> 0, jobs |-> 0, jobsClosed |-> FALSE, results |-> 0,
      resultsClosed |-> FALSE, recv |-> 0, process |-> 0, send |-> 0, exited |-> 0,
      sent |-> 0, taken |-> 0, at |-> "idle", up |-> TRUE ]

\* no pool runs on numbers
LoadIdle == load = NoLoad

\* no job runs for its buffer alone
PoolIdle ==
    /\ bufferPool = {}
    /\ buffers = <<>>
    /\ running = [s \in 1..MaxPoolJobs |-> NoBufferJob]
    /\ discarded = {}
    /\ reused = {}
    /\ poolRuns = 0
    /\ poolUp = TRUE

Init ==
    /\ PipeInit
    /\ CardIdle
    /\ OneBoard
    /\ PathIdle
    /\ PoolIdle
    /\ LoadIdle

\* the kinds of failure a job's outcome carries: "critical" for what the
\* handler or the renderer treats as CRITICAL or returns as the job's error
\* (a failed write of content, a failed list lookup), "touch" for a failed
\* write of an empty file, "fetch" for a failed fetch of a sub-resource,
\* "other" for a failed download or a failed fetch of the card itself
Kinds(o) ==
    {k \in {"critical", "touch", "fetch", "other"} :
        \/ k = "critical" /\ (o.writeFailed \/ o.listFailed)
        \/ k = "touch" /\ o.touchFailed
        \/ k = "fetch" /\ o.fetchFailed
        \/ k = "other" /\ o.otherFailed}

(***************************************************************************)
(* dumpABoard up to the card phase.                                        *)
(***************************************************************************)
\* dirCreate of the storage path and of the board's directory, the
\* background image
BoardSetup ==
    /\ alive /\ pc = "board"
    /\ \E root \in OkFail, dir \in OkFail, image \in {"none", "ok", "fail", "fatal"} :
          IF root = "fail" \/ dir = "fail"
          THEN /\ alive' = FALSE
               /\ failures' = failures \cup {"mkdir"}
               /\ pc' = pc
               /\ UNCHANGED exports
          ELSE IF image = "fatal"
          THEN /\ alive' = FALSE
               /\ failures' = failures \cup {"fatal"}
               /\ pc' = pc
               /\ UNCHANGED exports
          ELSE /\ alive' = alive
               /\ failures' = failures \cup (IF image = "fail" THEN {"other"} ELSE {})
               /\ pc' = "labels"
               /\ exports' = exports \cup {"background"}
    /\ UNCHANGED sideVars
    /\ UNCHANGED <<errorWarnOnCompletion, cards, listCache, jobs, jobsClosed, results,
                   resultsClosed, processed, workers, dpc, di, cpc, ri, errorCount,
                   history>>

\* the exports of a board that precede its cards
BoardExports == {"background", "labels", "members"}

\* a board-level Markdown file: the fetch of its data, then os.WriteFile
BoardFile(at, next) ==
    /\ alive /\ pc = at
    /\ \E fetch \in OkFail, write \in OkFail :
          IF fetch = "fail"
          THEN /\ failures' = failures \cup {"other"}
               /\ pc' = next
               /\ UNCHANGED errorWarnOnCompletion
          ELSE IF write = "fail"
          THEN /\ failures' = failures \cup {"critical"}
               /\ errorWarnOnCompletion' = TRUE
               /\ pc' = "done"
          ELSE /\ pc' = next
               /\ UNCHANGED <<failures, errorWarnOnCompletion>>
    /\ exports' = exports \cup {at}
    /\ UNCHANGED sideVars
    /\ UNCHANGED <<alive, cards, listCache, jobs, jobsClosed, results, resultsClosed,
                   processed, workers, dpc, di, cpc, ri, errorCount, history>>

\* dumpABoard without the export of the members
BoardLabelsThenCards == BoardFile("labels", "cards")

BoardLabels == BoardFile("labels", "members")

BoardMembers == BoardFile("members", "cards")

\* SearchCards or GetCards, then the test for zero cards
FetchCards ==
    /\ alive /\ pc = "cards"
    /\ \/ LET h == handleProcessingError(NewJob, ProcessingError("Critical"))
          IN  /\ failures' = failures \cup {"critical"}
              /\ errorWarnOnCompletion' =
                     (errorWarnOnCompletion \/ HasEvent(h, "flag", TRUE))
              /\ pc' = "done"
              /\ UNCHANGED cards
       \/ \E cs \in CardLists :
             /\ cards' = cs
             /\ IF Len(cs) = 0
                THEN /\ failures' = failures \cup {"critical"}
                     /\ errorWarnOnCompletion' = TRUE
                     /\ pc' = "done"
                ELSE /\ pc' = "cache"
                     /\ UNCHANGED <<failures, errorWarnOnCompletion>>
    /\ UNCHANGED <<sideVars, exports>>
    /\ UNCHANGED <<alive, listCache, jobs, jobsClosed, results, resultsClosed,
                   processed, workers, dpc, di, cpc, ri, errorCount, history>>

(***************************************************************************)
(* processCardsConcurrently.                                               *)
(***************************************************************************)
\* createListCache: on failure the cache is an empty map
CreateListCache ==
    /\ alive /\ pc = "cache"
    /\ \/ /\ listCache' = BoardLists
          /\ UNCHANGED failures
       \/ /\ listCache' = {}
          /\ failures' = failures \cup {"other"}
    /\ pc' = "spawn"
    /\ flagAtCall' = errorWarnOnCompletion
    /\ UNCHANGED <<cardVars, pathVars, poolVars, loadVars, listOfBoards, bi, exports>>
    /\ UNCHANGED <<alive, errorWarnOnCompletion, cards, jobs, jobsClosed, results,
                   resultsClosed, processed, workers, dpc, di, cpc, ri, errorCount,
                   history>>

\* the channels, the MaxWorkers workers, the two goroutines
Spawn ==
    /\ alive /\ pc = "spawn" /\ numCards > 0
    /\ jobs' = <<>> /\ results' = <<>>
    /\ processed' = 0
    /\ workers' = [x \in {IdleWorker} |-> MaxWorkers]
    /\ dpc' = "send" /\ di' = 1
    /\ cpc' = "wait"
    /\ ri' = 0 /\ errorCount' = 0
    /\ pc' = "drain"
    /\ UNCHANGED <<sideVars, exports>>
    /\ UNCHANGED <<alive, errorWarnOnCompletion, cards, listCache, jobsClosed,
                   resultsClosed, failures, history>>

\* jobs <- CardProcessingJob{...}
DispatcherSend ==
    /\ alive /\ dpc = "send"
    /\ Len(jobs) < numCards
    /\ jobs' = Append(jobs, di)
    /\ history' = [history EXCEPT ![di].created = @ + 1]
    /\ di' = di + 1
    /\ dpc' = IF di = numCards THEN "close" ELSE "send"
    /\ UNCHANGED <<sideVars, exports>>
    /\ UNCHANGED <<pc, alive, errorWarnOnCompletion, cards, listCache, jobsClosed,
                   results, resultsClosed, processed, workers, cpc, ri, errorCount,
                   failures>>

\* defer close(jobs)
DispatcherClose ==
    /\ alive /\ dpc = "close"
    /\ jobsClosed' = TRUE
    /\ dpc' = "done"
    /\ UNCHANGED <<sideVars, exports>>
    /\ UNCHANGED <<pc, alive, errorWarnOnCompletion, cards, listCache, jobs, results,
                   resultsClosed, processed, workers, di, cpc, ri, errorCount,
                   failures, history>>

(***************************************************************************)
(* processCardWorker: for job := range jobs { ... }                        *)
(***************************************************************************)
\* the workers after one of them has gone from w to v
Step(w, v) == (workers (-) SetToBag({w})) (+) SetToBag({v})

WorkersAt(at) == {w \in BagToSet(workers) : w.pc = at}

\* the receive of the range loop: a job, or the end of the loop once the
\* channel is closed and empty (then the deferred wg.Done)
WorkerRecv ==
    /\ alive
    /\ \E w \in WorkersAt("recv") :
          IF jobs # <<>>
          THEN /\ workers' = Step(w, Worker("process", Head(jobs), FALSE, FALSE))
               /\ jobs' = Tail(jobs)
               /\ history' = [history EXCEPT ![Head(jobs)].received = @ + 1]
          ELSE /\ jobsClosed
               /\ workers' = Step(w, ExitedWorker)
               /\ UNCHANGED <<jobs, history>>
    /\ UNCHANGED <<sideVars, exports>>
    /\ UNCHANGED <<pc, alive, errorWarnOnCompletion, cards, listCache, jobsClosed,
                   results, resultsClosed, processed, dpc, di, cpc, ri, errorCount,
                   failures>>

\* err := processSingleCard(job), up to its assignment of
\* errorWarnOnCompletion if it makes one
WorkerProcess ==
    /\ alive
    /\ \E w \in WorkersAt("process") :
       \E o \in JobOutcomes[InCache(listCache, cards[w.job].idList)] :
          /\ failures' = failures \cup Kinds(o) \cup (IF o.exit THEN {"mkdir"} ELSE {})
          /\ history' = [history EXCEPT ![w.job].kinds = Kinds(o),
                                        ![w.job].exited = o.exit,
                                        ![w.job].lookup = o.lookup]
          /\ listCache' = CacheAfterJob(listCache, cards[w.job].idList)
          /\ alive' = ~o.exit
          /\ workers' = Step(w, Worker(IF o.exit THEN "process"
                                       ELSE IF o.flag THEN "flag" ELSE "send",
                                       w.job, o.err, o.flag))
    /\ UNCHANGED <<sideVars, exports>>
    /\ UNCHANGED <<pc, errorWarnOnCompletion, cards, jobs, jobsClosed,
                   results, resultsClosed, processed, dpc, di, cpc, ri, errorCount>>

\* errorWarnOnCompletion = true, a plain assignment made by the worker
WorkerSetFlag ==
    /\ alive
    /\ \E w \in WorkersAt("flag") :
          /\ errorWarnOnCompletion' = TRUE
          /\ history' = [history EXCEPT ![w.job].flagged = TRUE]
          /\ workers' = Step(w, [w EXCEPT !.pc = "send"])
    /\ UNCHANGED <<sideVars, exports>>
    /\ UNCHANGED <<pc, alive, cards, listCache, jobs, jobsClosed, results,
                   resultsClosed, processed, dpc, di, cpc, ri, errorCount, failures>>

\* a worker that reports failures only: if err != nil { results <- err }
SendResultOnlyErr(ch, w) ==
    IF w.err THEN Append(ch, [err |-> w.err, job |-> w.job]) ELSE ch

\* if err != nil { results <- err } else { results <- nil }: the channel
\* after worker w has put the result of its job on it
SendResult(ch, w) == Append(ch, [err |-> w.err, job |-> w.job])

WorkerSend ==
    /\ alive
    /\ ~resultsClosed
    /\ Len(results) < numCards
    /\ \E w \in WorkersAt("send") :
          /\ results' = SendResult(results, w)
          /\ history' = [history EXCEPT
                           ![w.job].delivered = @ + (Len(results') - Len(results)),
                           ![w.job].err = w.err]
          /\ workers' = Step(w, [w EXCEPT !.pc = "add"])
    /\ UNCHANGED <<sideVars, exports>>
    /\ UNCHANGED <<pc, alive, errorWarnOnCompletion, cards, listCache, jobs,
                   jobsClosed, resultsClosed, processed, dpc, di, cpc, ri, errorCount,
                   failures>>

\* a worker that counts its successes only
AddInt64OnSuccess(counter, w) == IF w.err THEN counter ELSE counter + 1

\* atomic.AddInt64(processed, 1): the counter after the job of worker w
AddInt64(counter, w) == counter + 1

\* current := atomic.AddInt64(processed, 1), then the next iteration
WorkerAdd ==
    /\ alive
    /\ \E w \in WorkersAt("add") :
          /\ processed' = AddInt64(processed, w)
          /\ history' = [history EXCEPT ![w.job].counted = @ + (processed' - processed)]
          /\ workers' = Step(w, IdleWorker)
    /\ UNCHANGED <<sideVars, exports>>
    /\ UNCHANGED <<pc, alive, errorWarnOnCompletion, cards, listCache, jobs,
                   jobsClosed, results, resultsClosed, dpc, di, cpc, ri, errorCount,
                   failures>>

\* go func() { wg.Wait(); close(results) }()
CloseResults ==
    /\ alive /\ cpc = "wait"
    /\ BagToSet(workers) = {ExitedWorker}
    /\ resultsClosed' = TRUE
    /\ cpc' = "done"
    /\ UNCHANGED <<sideVars, exports>>
    /\ UNCHANGED <<pc, alive, errorWarnOnCompletion, cards, listCache, jobs,
                   jobsClosed, results, processed, workers, dpc, di, ri, errorCount,
                   failures, history>>

\* one iteration of the run loop: if err := <-results; err != nil { errorCount++ }
\* a receive from the closed and empty channel gives nil
Drain ==
    /\ alive /\ pc = "drain"
    /\ ri < numCards
    /\ results # <<>> \/ resultsClosed
    /\ IF results # <<>>
       THEN /\ results' = Tail(results)
            /\ errorCount' = errorCount + (IF Head(results).err THEN 1 ELSE 0)
       ELSE UNCHANGED <<results, errorCount>>
    /\ ri' = ri + 1
    /\ pc' = IF ri + 1 = numCards THEN "tally" ELSE "drain"
    /\ UNCHANGED <<sideVars, exports>>
    /\ UNCHANGED <<alive, errorWarnOnCompletion, cards, listCache, jobs, jobsClosed,
                   resultsClosed, processed, workers, dpc, di, cpc, failures, history>>

\* a tally that makes the flag the verdict on this board alone
TallyOfThisBoard ==
    /\ alive /\ pc = "tally"
    /\ errorWarnOnCompletion' = (errorCount > 0)
    /\ pc' = "done"
    /\ UNCHANGED <<sideVars, exports>>
    /\ UNCHANGED <<alive, cards, listCache, jobs, jobsClosed, results, resultsClosed,
                   processed, workers, dpc, di, cpc, ri, errorCount, failures, history>>

\* if errorCount > 0 { errorWarnOnCompletion = true }, and the return
Tally ==
    /\ alive /\ pc = "tally"
    /\ errorWarnOnCompletion' = (errorWarnOnCompletion \/ errorCount > 0)
    /\ pc' = "done"
    /\ UNCHANGED <<sideVars, exports>>
    /\ UNCHANGED <<alive, cards, listCache, jobs, jobsClosed, results, resultsClosed,
                   processed, workers, dpc, di, cpc, ri, errorCount, failures, history>>

Next ==
    \/ BoardSetup
    \/ BoardLabels
    \/ BoardMembers
    \/ FetchCards
    \/ CreateListCache
    \/ Spawn
    \/ DispatcherSend
    \/ DispatcherClose
    \/ WorkerRecv
    \/ WorkerProcess
    \/ WorkerSetFlag
    \/ WorkerSend
    \/ WorkerAdd
    \/ CloseResults
    \/ Drain
    \/ Tally

Spec == Init /\ [][Next]_vars

\* the Go scheduler runs every goroutine that can take a step
FairSpec ==
    /\ Spec
    /\ WF_vars(BoardSetup) /\ WF_vars(BoardLabels) /\ WF_vars(BoardMembers)
    /\ WF_vars(FetchCards) /\ WF_vars(CreateListCache) /\ WF_vars(Spawn)
    /\ WF_vars(DispatcherSend) /\ WF_vars(DispatcherClose)
    /\ WF_vars(WorkerRecv) /\ WF_vars(WorkerProcess) /\ WF_vars(WorkerSetFlag)
    /\ WF_vars(WorkerSend) /\ WF_vars(WorkerAdd)
    /\ WF_vars(CloseResults) /\ WF_vars(Drain) /\ WF_vars(Tally)

(***************************************************************************)
(* main: the loop over the board IDs.  dumpABoard is called once per board *)
(* that GetBoard finds; its locals and those of processCardsConcurrently   *)
(* are fresh in every call, errorWarnOnCompletion is not.  Workers still   *)
(* in their loop when processCardsConcurrently returns have sent their     *)
(* results and touch nothing but the counter of that call.                 *)
(***************************************************************************)
BoardsInit ==
    /\ pc = "main"
    /\ alive = TRUE
    /\ errorWarnOnCompletion = FALSE
    /\ CallInit
    /\ CardIdle
    /\ PathIdle
    /\ PoolIdle
    /\ LoadIdle
    /\ listOfBoards \in 1..MaxBoards
    /\ bi = 0

\* the next iteration, at the start or when dumpABoard has returned:
\* board, err := client.GetBoard(boardID, ...); continue when it fails,
\* else the call of dumpABoard
GetBoard ==
    /\ alive /\ pc \in {"main", "done"}
    /\ bi < listOfBoards
    /\ bi' = bi + 1
    /\ flagAtCall' = FALSE
    /\ \E found \in BOOLEAN :
          /\ pc' = IF found THEN "board" ELSE "main"
          /\ failures' = IF found THEN {} ELSE {"notfound"}
    /\ exports' = {}
    /\ cards' = <<>> /\ listCache' = {}
    /\ jobs' = <<>> /\ jobsClosed' = FALSE
    /\ results' = <<>> /\ resultsClosed' = FALSE
    /\ processed' = 0 /\ workers' = EmptyBag
    /\ dpc' = "off" /\ di' = 0 /\ cpc' = "off"
    /\ ri' = 0 /\ errorCount' = 0
    /\ history' = [j \in 1..MaxCards |-> NoHistory]
    /\ UNCHANGED <<alive, errorWarnOnCompletion, listOfBoards>>
    /\ UNCHANGED <<cardVars, pathVars, poolVars, loadVars>>

BoardsNext == GetBoard \/ Next

SpecBoards == BoardsInit /\ [][BoardsNext]_vars

(***************************************************************************)
(* One job on its own: processSingleCard applied to every environment of   *)
(* the model, and handleProcessingError applied to every error.            *)
(***************************************************************************)
Errors == {NilError, PlainError}
          \cup {ProcessingError(sev) : sev \in Severities \cup {"Unknown"}}

CardInit ==
    /\ PipeInit
    /\ OneBoard
    /\ cardEnv \in CardEnvs
    /\ cardCached \in BOOLEAN
    /\ cardJob = NewJob
    /\ handled = NotHandled
    /\ PathIdle
    /\ PoolIdle
    /\ LoadIdle

RunJob ==
    /\ cardJob = NewJob
    /\ cardJob' = processSingleCard(cardCached, cardEnv)
    /\ UNCHANGED <<cardEnv, cardCached, handled>>
    /\ UNCHANGED <<pipeVars, mainVars, pathVars, poolVars, loadVars>>

Handle ==
    /\ handled = NotHandled
    /\ \E err \in Errors :
          handled' = [err |-> err, after |-> handleProcessingError(NewJob, err)]
    /\ UNCHANGED <<cardEnv, cardCached, cardJob>>
    /\ UNCHANGED <<pipeVars, mainVars, pathVars, poolVars, loadVars>>

CardNext == RunJob \/ Handle

SpecCard == CardInit /\ [][CardNext]_vars

(***************************************************************************)
(* Properties of the worker pool.                                          *)
(***************************************************************************)
RECURSIVE SumOver(_, _)
SumOver(f(_), n) == IF n = 0 THEN 0 ELSE f(n) + SumOver(f, n - 1)

Dispatched(j) == history[j].created
Received(j) == history[j].received
Delivered(j) == history[j].delivered
Counted(j) == history[j].counted

\* every worker has left its range loop
AllExited == BagToSet(workers) = {ExitedWorker}

\* the number of workers among ws
RECURSIVE Copies(_)
Copies(ws) ==
    IF ws = {} THEN 0
    ELSE LET w == CHOOSE x \in ws : TRUE
         IN  CopiesIn(w, workers) + Copies(ws \ {w})

\* the number of workers that hold job j
Holders(j) == Copies({w \in BagToSet(workers) : w.job = j})

C4_ProgressCounter ==
    /\ processed \in 0..numCards
    /\ processed = SumOver(Counted, MaxCards)
    /\ \A j \in 1..MaxCards :
          /\ Counted(j) <= 1
          /\ Counted(j) <= Delivered(j)
          /\ Delivered(j) = 1 /\ Holders(j) = 0 => Counted(j) = 1
    /\ AllExited => processed = numCards
    /\ numCards > 0 /\ processed = numCards => WorkersAt("add") = {}

C4_Witness ==
    /\ numCards = MaxCards /\ AllExited
    /\ processed = numCards
    /\ \E j \in 1..numCards : history[j].err /\ Counted(j) = 1
    /\ \E j \in 1..numCards : ~history[j].err /\ Counted(j) = 1

\* C2: a failure in one job never prevents another job from delivering its
\* result: when the process has ended, every job other than the one that
\* met the failure has delivered its result.
C2_FailureIsolated ==
    ~alive /\ numCards > 0
        => \A j \in 1..numCards : Delivered(j) = 1 \/ history[j].exited

\* C3: a run of processCardsConcurrently goes on until it is done: while the
\* run loop has not returned, some goroutine can take a step.
C3_RunCompletes ==
    numCards > 0 /\ pc \in {"drain", "tally"} => ENABLED Next

(***************************************************************************)
(* The paths the jobs write to.                                            *)
(***************************************************************************)
StoragePath == <<"o", "u", "t">>
BoardPath == <<"B", "o", "a", "r", "d">>
ListName(id) == IF id = "L1" THEN <<"T", "o", "d", "o">> ELSE <<"D", "o", "n", "e">>

\* cardPath of processRegularCard for a card of the board
RegularPath(card, separateArchived) ==
    CardPath(StoragePath, BoardPath, SanitizePathName(ListName(card.idList), 0),
             card, separateArchived, 0)

\* C6: no two workers ever write to the same path: two workers that process
\* different cards at the same time have different card paths, whatever the
\* names of the cards and the setting of separateArchived.
C6_DistinctPaths ==
    \A w1, w2 \in WorkersAt("process") :
        w1.job # w2.job
            => \A separateArchived \in BOOLEAN :
                  RegularPath(cards[w1.job], separateArchived)
                      # RegularPath(cards[w2.job], separateArchived)

\* C7: errorWarnOnCompletion is false at the end of a run in which nothing
\* failed, and true at the end of a run in which an output file could not be
\* written, the fetch of the cards or a list lookup failed, or the board had
\* no cards.
C7_FlagReflectsFailures ==
    pc = "done"
        => /\ failures = {} => ~errorWarnOnCompletion
           /\ failures \cap {"critical", "touch"} # {} => errorWarnOnCompletion

\* C10: every update of errorWarnOnCompletion is serialised: at no time are
\* two workers both about to assign it.
C10_FlagUpdatesSerialised == Copies(WorkersAt("flag")) <= 1

\* C8 as the specification has it: a job that met a failed fetch of a
\* sub-resource or a failed write of an output file delivers a non-nil result,
\* and the run loop counts the non-nil results.
C8_EveryFailureCounted ==
    numCards > 0 /\ pc = "done"
        => /\ \A j \in 1..numCards :
                 history[j].kinds \cap {"critical", "touch", "fetch"} # {}
                     => history[j].err
           /\ errorCount = Cardinality({j \in 1..numCards : history[j].err})

\* C8: a job delivers a non-nil result exactly when a write of a file with
\* content or the lookup of its list failed; a failed fetch of a
\* sub-resource and a failed write of an empty file leave the result nil.
\* The run loop's error counter never exceeds the results drained and, when
\* the loop is through, is the number of jobs with a non-nil result.
C8_ContentFailuresCounted ==
    /\ \A j \in 1..numCards :
          Delivered(j) = 1 => (history[j].err <=> "critical" \in history[j].kinds)
    /\ errorCount <= ri
    /\ numCards > 0 /\ pc \in {"tally", "done"}
          => errorCount = Cardinality({j \in 1..numCards : history[j].err})

C8_Witness ==
    /\ pc = "done" /\ numCards = MaxCards
    /\ errorCount = 1
    /\ \E j \in 1..numCards : history[j].err /\ "critical" \in history[j].kinds
    /\ \E j \in 1..numCards : ~history[j].err /\ "fetch" \in history[j].kinds

(***************************************************************************)
(* Properties of one job.                                                  *)
(***************************************************************************)
\* the job of a regular card has returned nil
RegularSuccess ==
    /\ cardJob # NewJob
    /\ ~cardJob.err /\ ~cardJob.exit
    /\ ~isLinkCard(cardEnv)

\* a collection as the renderer gets it: from the card data, or from the
\* fallback fetch when the card data does not hold it
Obtained(inCard, fetched) == IF inCard = "nil" THEN fetched ELSE inCard

\* a file written from a collection exists: with content, or empty when the
\* write of the empty file went through
Rendered(items, write) == items = "some" \/ (items = "empty" /\ write = "ok")

CommentsOf(e) ==
    Obtained(IF e.actions = "nil" THEN "nil"
             ELSE IF e.actions = "comments" THEN "some" ELSE "empty", e.commentsFetch)

HistoryOf(e) ==
    Obtained(IF e.actions = "nil" THEN "nil"
             ELSE IF e.actions = "empty" THEN "empty" ELSE "some", e.historyFetch)

DueFile(e) == IF e.due = "complete" THEN "CardDueDate (Completed).md" ELSE "CardDueDate.md"

\* C5 as the specification has it: after a successful job of a regular card
\* the card directory holds the whole file set, whatever the collections hold
\* and however the fallback fetches end.
C5_WholeFileSet ==
    RegularSuccess
        => /\ \A f \in {"CardDescription.md", "attachments",
                        "attachments/URL-Attachments.md", "checklists",
                        "CardComments.md", "CardUsers.md", "CardLabels.md",
                        "CardHistory.md", "CardStartDate.md"} : Present(cardJob, f)
           /\ Present(cardJob, DueFile(cardEnv))

\* C5: after a successful job of a regular card the card directory holds
\* CardDescription.md and checklists/; attachments/ when the attachments were
\* obtained, with URL-Attachments.md inside when there is at least one; each
\* of CardComments.md, CardUsers.md, CardLabels.md, CardHistory.md when its
\* collection was obtained and holds something, or is empty and the empty file
\* could be written; the due-date and the start-date file when the date is
\* set, or is not set and the empty file could be written.
C5_FilesOfSuccessfulJob ==
    RegularSuccess
        => LET e == CardData(cardEnv)
               attachments == Obtained(e.att, e.attFetch)
           IN  /\ Present(cardJob, "card")
               /\ Present(cardJob, "CardDescription.md")
               /\ Present(cardJob, "checklists")
               /\ Present(cardJob, "attachments") <=> attachments # "fail"
               /\ Present(cardJob, "attachments/URL-Attachments.md")
                     <=> attachments = "some"
               /\ Present(cardJob, "CardComments.md")
                     <=> Rendered(CommentsOf(e), e.commentsWrite)
               /\ Present(cardJob, "CardUsers.md")
                     <=> Rendered(Obtained(e.members, e.membersFetch), e.usersWrite)
               /\ Present(cardJob, "CardLabels.md")
                     <=> Rendered(Obtained(e.labels, e.labelsFetch), e.labelsWrite)
               /\ Present(cardJob, "CardHistory.md")
                     <=> Rendered(HistoryOf(e), e.historyWrite)
               /\ Present(cardJob, DueFile(e)) <=> (e.due # "nil" \/ e.dueWrite = "ok")
               /\ Present(cardJob, "CardStartDate.md")
                     <=> (e.start = "set" \/ e.startWrite = "ok")

C5_Witness ==
    /\ RegularSuccess
    /\ cardEnv.actions = "nil" /\ cardEnv.commentsFetch = "fail"
    /\ ~Present(cardJob, "CardComments.md")
    /\ Present(cardJob, "CardHistory.md")
    /\ Present(cardJob, "attachments/URL-Attachments.md")

WarningEvent == Event("handle", "Warning", <<>>, TRUE)

\* C9: given a Warning, or an error that is no ProcessingError,
\* handleProcessingError logs it, returns nil and does not assign
\* errorWarnOnCompletion; a job in which this happens goes on with its next
\* step, and its result is non-nil only if a later write fails.
C9_WarningIsHarmless ==
    /\ handled.err # NilError /\ HandledSeverity(handled.err) = "Warning"
          => /\ handled.after.events = <<WarningEvent>>
             /\ ~handled.after.err
    /\ \A i \in 1..Len(cardJob.events) :
          cardJob.events[i] = WarningEvent
              => /\ i < Len(cardJob.events)
                 /\ cardJob.events[i + 1] \in
                        { Event("mkdir", "checklists", <<>>, ok) : ok \in BOOLEAN }
                 /\ cardJob.err
                       => \E k \in (i + 1)..Len(cardJob.events) :
                             cardJob.events[k].op = "write" /\ ~cardJob.events[k].ok

C9_Witness ==
    /\ handled.err = PlainError
    /\ handled.after.events = <<WarningEvent>>
    /\ \E i \in 1..Len(cardJob.events) : cardJob.events[i] = WarningEvent
    /\ ~cardJob.err /\ ~cardJob.exit
    /\ ~HasEvent(cardJob, "flag", TRUE)

(***************************************************************************)
(* Properties of the loop over the boards.                                 *)
(***************************************************************************)
\* C11: a board-level failure ends that board only and every remaining
\* board ID is still taken up: when the process has ended in the set-up of a
\* board (its directory could not be created), no requested board ID is left.
C11_RemainingBoardsProcessed ==
    ~alive /\ pc = "board" /\ "mkdir" \in failures => bi = listOfBoards

(***************************************************************************)
(* The order of the steps of one job.                                      *)
(***************************************************************************)
\* the step of a job an event belongs to: 1 the list lookup, 2 the list's
\* directory, 3 the classification, 4 the card's own directory, 5 the
\* sub-resources; 0 for what belongs to no step
StepOf(ev) ==
    CASE ev.op = "lookup" -> 1
      [] ev.op = "fetch" /\ ev.arg = "list" -> 1
      [] ev.op = "mkdir" /\ ev.arg = "list" -> 2
      [] ev.op = "fetch" /\ ev.arg = "cardRole" -> 3
      [] ev.op = "mkdir" /\ ev.arg \in {"card", "Link Cards Only"} -> 4
      [] ev.op = "mkdir" -> 5
      [] ev.op \in {"write", "touch", "download"} -> 5
      [] ev.op = "fetch" /\ ev.arg \in SubResources -> 5
      [] OTHER -> 0

Classified(js, i) ==
    \E k \in 1..(i - 1) : StepOf(js.events[k]) = 3

\* C12 as stated: no directory is created in a job before the card has been
\* classified.
C12_ClassifiedBeforeAnyDirectory ==
    \A i \in 1..Len(cardJob.events) :
        cardJob.events[i].op = "mkdir" => Classified(cardJob, i)

\* C12: within one job the steps are strictly sequential: list lookup, the
\* list's directory, classification, the card's own directory, sub-resource
\* writes.  No step starts before the one before it is over, every step a job
\* reaches comes after all the steps before it, and the card's own directory
\* (the card's or "Link Cards Only") is never created before the
\* classification; the list's directory is.
C12_StepsInOrder ==
    LET ev == cardJob.events
    IN  /\ \A i, k \in 1..Len(ev) :
              i < k /\ StepOf(ev[i]) > 0 /\ StepOf(ev[k]) > 0
                  => StepOf(ev[i]) <= StepOf(ev[k])
        /\ \A k \in 1..Len(ev) : \A n \in 1..(StepOf(ev[k]) - 1) :
              \E i \in 1..(k - 1) : StepOf(ev[i]) = n
        /\ \A k \in 1..Len(ev) :
              StepOf(ev[k]) \in {4, 5} => Classified(cardJob, k)

\* a regular card and a link card with their files written
C12_Witness ==
    /\ Present(cardJob, "list")
    /\ \/ Present(cardJob, "card") /\ Present(cardJob, "CardDescription.md")
       \/ Present(cardJob, "Link Cards Only") /\ Present(cardJob, "CARD.md")
    /\ \E k \in 1..Len(cardJob.events) : StepOf(cardJob.events[k]) = 5

(***************************************************************************)
(* The board-level exports and the worker pool.                            *)
(***************************************************************************)
\* the list cache has been built, a worker started or a job dispatched
PoolBegun ==
    \/ pc \in {"spawn", "drain", "tally"}
    \/ listCache # {}
    \/ workers # EmptyBag
    \/ dpc # "off"
    \/ \E j \in 1..MaxCards : Dispatched(j) > 0

\* C13: the background image, BoardLabels.md and BoardMembers.md of a board
\* are all over, well or badly, before the list cache is built, a worker is
\* started or a job is dispatched.
C13_ExportsBeforePool ==
    PoolBegun => exports = BoardExports

\* jobs are dispatched on a board one of whose exports failed
C13_Witness ==
    /\ pc = "drain" /\ workers # EmptyBag
    /\ \E j \in 1..MaxCards : Dispatched(j) > 0
    /\ "other" \in failures /\ listCache # {}
    /\ exports = BoardExports

(***************************************************************************)
(* The checklist files of a card.                                          *)
(***************************************************************************)
\* the writes of checklist files that succeeded, in the order of the job
ChecklistWrites(js) ==
    { i \in 1..Len(js.events) :
        /\ js.events[i].op = "write" /\ js.events[i].ok
        /\ js.events[i].arg = "checklists" }

\* C14: all checklists of a card are written to pairwise distinct files, no
\* checklist file is overwritten by another checklist of the same card,
\* whatever the sequence of the checklist names.
C14_ChecklistFilesDistinct ==
    \A i, k \in ChecklistWrites(cardJob) :
        i # k => cardJob.events[i].stem # cardJob.events[k].stem

(***************************************************************************)
(* Names and paths on their own: SanitizePathName applied to a name and to *)
(* its own result, and the target directory of a regular card of that      *)
(* name.                                                                   *)
(***************************************************************************)
\* the characters of the names: a letter, a separator, an illegal
\* character, a blank and a tab
NameChars == {"a", "-", "/", " ", "\t"}

RECURSIVE SeqsUpTo(_, _)
SeqsUpTo(S, n) ==
    IF n = 0 THEN {<<>>}
    ELSE LET shorter == SeqsUpTo(S, n - 1)
         IN  shorter \cup { Append(q, c) : q \in shorter, c \in S }

Letters(n) == [i \in 1..n |-> "a"]

\* short names, and names that reach the length limit
Names ==
    SeqsUpTo(NameChars, MaxShortName)
        \cup { Letters(n) \o tail : n \in (MaxNameLen - MaxTail)..MaxNameLen,
                                    tail \in SeqsUpTo(NameChars, MaxTail) }

BoardNames == {BoardPath, <<"a", "/", "b">>}
ListNames == {ListName("L1"), <<".", "x">>}
Clock == {0, 1}

PathInit ==
    /\ PipeInit
    /\ CardIdle
    /\ OneBoard
    /\ PoolIdle
    /\ LoadIdle
    /\ rawName \in Names
    /\ firstClean = <<>>
    /\ secondClean = <<>>
    /\ targetDir = <<>>

\* SanitizePathName(name)
Sanitize ==
    /\ firstClean = <<>>
    /\ \E now \in Clock : firstClean' = SanitizePathName(rawName, now)
    /\ UNCHANGED <<rawName, secondClean, targetDir>>
    /\ UNCHANGED <<pipeVars, cardVars, mainVars, poolVars, loadVars>>

\* SanitizePathName of a result of SanitizePathName
SanitizeAgain ==
    /\ firstClean # <<>> /\ secondClean = <<>>
    /\ \E now \in Clock : secondClean' = SanitizePathName(firstClean, now)
    /\ UNCHANGED <<rawName, firstClean, targetDir>>
    /\ UNCHANGED <<pipeVars, cardVars, mainVars, poolVars, loadVars>>

\* the directory of a regular card: boardPath of dumpABoard, cleanListPath
\* of processSingleCard, cardPath of processRegularCard
JoinCardPath ==
    /\ targetDir = <<>>
    /\ \E board \in BoardNames, list \in ListNames, closed \in BOOLEAN,
          separateArchived \in BOOLEAN, now \in Clock :
          LET boardPath == SanitizePathName(board, now)
              cleanListPath == SanitizePathName(list, now)
              card == [name |-> rawName, closed |-> closed]
          IN  targetDir' =
                  [ board |-> board, list |-> list, closed |-> closed,
                    separateArchived |-> separateArchived, now |-> now,
                    cardPath |-> CardPath(StoragePath, boardPath, cleanListPath,
                                          card, separateArchived, now) ]
    /\ UNCHANGED <<rawName, firstClean, secondClean>>
    /\ UNCHANGED <<pipeVars, cardVars, mainVars, poolVars, loadVars>>

PathNext == Sanitize \/ SanitizeAgain \/ JoinCardPath

SpecPath == PathInit /\ [][PathNext]_vars

C16_CleanSegment ==
    firstClean # <<>> =>
        /\ \A i \in 1..Len(firstClean) : firstClean[i] \notin IllegalChars
        /\ Head(firstClean) \notin {"-", ".", "_", " ", "\t"}
        /\ firstClean[Len(firstClean)] \notin {"-", ".", "_", " ", "\t"}
        /\ Len(firstClean) <= 240

\* the name does not take the empty-name fallback
NoFallback(name) == Trim(ReplaceIllegal(name)) # <<>>

\* C17: SanitizePathName is idempotent on every name that does not take the
\* empty-name fallback, the names it truncates included.
C17_Idempotent ==
    firstClean # <<>> /\ secondClean # <<>> /\ NoFallback(rawName)
        => secondClean = firstClean

(***************************************************************************)
(* The list cache.                                                         *)
(***************************************************************************)
\* the jobs whose list lookup has happened
LookedUp == { j \in 1..numCards : history[j].lookup # "none" }

\* C18 as stated: when the list cache is populated no list is fetched
\* individually.
C18_NoFetchWhenPopulated ==
    listCache # {} => \A j \in LookedUp : history[j].lookup = "cache"

\* C18: a card's list is served from the cache exactly when the cache holds
\* the card's list ID, and fetched individually exactly when it does not:
\* for every card when building the cache failed, and with a populated cache
\* for the cards whose list is not among the lists of the cache.
C18_FetchExactlyOnMiss ==
    \A j \in LookedUp :
        history[j].lookup = "cache" <=> cards[j].idList \in listCache

\* a populated cache, one card served from it and one card fetched
C18_Witness ==
    /\ listCache # {}
    /\ \E j \in LookedUp : history[j].lookup = "cache"
    /\ \E j \in LookedUp : history[j].lookup = "fetch"

\* building the cache failed and processCardsConcurrently went on
CacheFailed == listCache = {} /\ (pc \in {"spawn", "drain", "tally"} \/ dpc # "off")

\* C19: a failed fetch of the board's lists is not fatal: the workers run
\* with an empty cache, every card's list is fetched by its ID, a card whose
\* list fetch fails as well gets an error result (CRITICAL, the flag set),
\* and a card whose list fetch succeeds and that meets no other failure is
\* exported and gets the nil result.
C19_CacheFailureNotFatal ==
    CacheFailed =>
        /\ "other" \in failures
        /\ pc \in {"spawn", "drain"} /\ history = [j \in 1..MaxCards |-> NoHistory] => alive
        /\ \A j \in LookedUp :
              /\ history[j].lookup \in {"fetch", "failed"}
              /\ history[j].lookup = "failed" =>
                     ~history[j].exited /\ "critical" \in history[j].kinds
              /\ Delivered(j) = 1 /\ history[j].lookup = "failed" =>
                     history[j].err /\ history[j].flagged
              /\ Delivered(j) = 1 /\ history[j].lookup = "fetch"
                     /\ history[j].kinds = {} => ~history[j].err

\* after a failed cache, one card lost its list fetch and one was exported
C19_Witness ==
    /\ CacheFailed /\ pc = "done" /\ numCards = MaxCards
    /\ \E j \in LookedUp :
          history[j].lookup = "failed" /\ Delivered(j) = 1 /\ history[j].err
    /\ \E j \in LookedUp :
          history[j].lookup = "fetch" /\ Delivered(j) = 1 /\ ~history[j].err

\* C20: the list cache is built once per board, before any worker starts,
\* and never written afterwards: no step of a worker, of the dispatcher or
\* of the run loop changes it, a job that fetched a missing list included.
C20_CacheWrittenOnce ==
    [][listCache' # listCache => pc = "cache" /\ workers = EmptyBag]_vars

\* two cards of a list the cache lacks have both fetched the list and the
\* cache is as it was built
C20_Witness ==
    /\ listCache = BoardLists
    /\ \E j, k \in LookedUp :
          /\ j # k /\ cards[j].idList = cards[k].idList
          /\ history[j].lookup = "fetch" /\ history[k].lookup = "fetch"

(***************************************************************************)
(* The comprehensive fetch and the fallback fetches of the renderers.      *)
(***************************************************************************)
\* the job has called the service for this resource
Fetches(js, what) == \E ok \in BOOLEAN : Event("fetch", what, <<>>, ok) \in Range(js.events)

\* the comprehensive fetch of the job failed
ComprehensiveFailed(js) == Event("fetch", "comprehensive", <<>>, FALSE) \in Range(js.events)

\* the fallback fetches of the renderers and the field of the card of the
\* board's card list each of them looks at
FallbackField ==
    [ attachments |-> "lightAtt", comments |-> "lightActions",
      members |-> "lightMembers", labels |-> "lightLabels",
      history |-> "lightActions" ]

\* C21 as stated: after a failed comprehensive fetch each of the five
\* renderers makes its own fetch.
C21_EveryRendererFetches ==
    ComprehensiveFailed(cardJob) /\ ~cardJob.err /\ ~cardJob.exit
        => \A r \in DOMAIN FallbackField : Fetches(cardJob, r)

\* C21: a failed comprehensive fetch does not fail the job: the job goes on
\* to the card's directory with the card of the board's card list, its result
\* is non-nil only when a write failed, and each of the attachments, comments,
\* members, labels and history renderers makes its own fetch exactly when
\* that card does not hold the collection the renderer needs.
C21_FallbackToLightCard ==
    ComprehensiveFailed(cardJob)
        => /\ \E ok \in BOOLEAN : Event("mkdir", "card", <<>>, ok) \in Range(cardJob.events)
           /\ cardJob.err => HasEvent(cardJob, "write", FALSE)
           /\ \A r \in DOMAIN FallbackField :
                 /\ Fetches(cardJob, r) => cardEnv[FallbackField[r]] = "nil"
                 /\ ~cardJob.err /\ ~cardJob.exit
                       => (Fetches(cardJob, r) <=> cardEnv[FallbackField[r]] = "nil")

\* the comprehensive fetch failed, the card holds no collection, the five
\* renderers fetched and the job succeeded
C21_Witness ==
    /\ ComprehensiveFailed(cardJob)
    /\ ~cardJob.err /\ ~cardJob.exit
    /\ \A r \in DOMAIN FallbackField : Fetches(cardJob, r)
    /\ Present(cardJob, "CardLabels.md") /\ Present(cardJob, "CardHistory.md")

(***************************************************************************)
(* Link cards.                                                             *)
(***************************************************************************)
\* the events of a job that satisfy a test on their step
EventsOfStep(js, n) == { i \in 1..Len(js.events) : StepOf(js.events[i]) = n }

\* the job was classified as a link card
LinkJob == EventsOfStep(cardJob, 3) # {} /\ isLinkCard(cardEnv)

\* C22: a card is classified once per job, never twice, and once in every
\* job that got as far as its list's directory; for a card classified as
\* link card the job makes one write, of the pointer file, creates the
\* "Link Cards Only" directory and no card directory, no attachments/ or
\* checklists/ and no Card*.md, and makes neither the comprehensive fetch nor
\* a fetch of a sub-resource.
C22_LinkCardOnlyPointer ==
    LET ev == cardJob.events
    IN  /\ Cardinality(EventsOfStep(cardJob, 3)) <= 1
        /\ Event("mkdir", "list", <<>>, TRUE) \in Range(ev)
              => Cardinality(EventsOfStep(cardJob, 3)) = 1
        /\ LinkJob =>
              /\ \A i \in 1..Len(ev) :
                    /\ ev[i].op = "mkdir" => ev[i].arg \in {"list", "Link Cards Only"}
                    /\ ev[i].op \in {"write", "touch", "download"} => ev[i].arg = "CARD.md"
                    /\ ev[i].op = "fetch" => ev[i].arg \in {"list", "cardRole"}
              /\ Cardinality(EventsOfStep(cardJob, 5)) <= 1
              /\ Present(cardJob, "Link Cards Only")
                    => Cardinality(EventsOfStep(cardJob, 5)) = 1
              /\ ~cardJob.err /\ ~cardJob.exit => Present(cardJob, "CARD.md")

\* a link card whose pointer file is written
C22_Witness ==
    /\ LinkJob
    /\ ~cardJob.err /\ ~cardJob.exit
    /\ Present(cardJob, "CARD.md")
    /\ Created(cardJob) = { [arg |-> a, stem |-> <<>>] :
                               a \in {"list", "Link Cards Only", "CARD.md"} }

(***************************************************************************)
(* The renderers of a regular card, in order.                              *)
(***************************************************************************)
\* the renderer of processRegularCard an event comes from, in the order of
\* the calls: 1 description, 2 attachments, 3 checklists, 4 comments,
\* 5 users, 6 labels, 7 history, 8 dates, 9 cover; 0 for every other event
RendererOf(ev) ==
    CASE ev.op \in {"write", "touch"} /\ ev.arg = "CardDescription.md" -> 1
      [] ev.arg \in {"attachments", "attachment", "attachments/URL-Attachments.md"} -> 2
      [] ev.arg \in {"checklists", "checklist"} -> 3
      [] ev.arg \in {"comments", "CardComments.md"} -> 4
      [] ev.arg \in {"members", "CardUsers.md"} -> 5
      [] ev.arg \in {"labels", "CardLabels.md"} -> 6
      [] ev.arg \in {"history", "CardHistory.md"} -> 7
      [] ev.arg \in {"CardDueDate.md", "CardDueDate (Completed).md", "CardStartDate.md"} -> 8
      [] ev.arg = "CardCoverColor.md" -> 9
      [] OTHER -> 0

\* the events at which a renderer returned a non-nil error: a write of
\* content that failed
RendererErrors(js) ==
    { i \in 1..Len(js.events) :
        /\ RendererOf(js.events[i]) > 0
        /\ js.events[i].op = "write" /\ ~js.events[i].ok }

\* C26: the sub-resources of a regular card are rendered in the order
\* description, attachments, checklists, comments, users, labels, history,
\* dates, cover; once a renderer has returned a non-nil error nothing of any
\* sub-resource is rendered after it, and that error, the only one of the
\* job, is what the job returns for the results channel.
C26_FixedOrderStopAtFirstError ==
    LET ev == cardJob.events
    IN  /\ \A i, k \in 1..Len(ev) :
              i < k /\ RendererOf(ev[i]) > 0 /\ RendererOf(ev[k]) > 0
                  => RendererOf(ev[i]) <= RendererOf(ev[k])
        /\ \A i \in RendererErrors(cardJob) :
              /\ \A k \in (i + 1)..Len(ev) : RendererOf(ev[k]) = 0
              /\ cardJob.err
              /\ RendererErrors(cardJob) = {i}
        /\ \A k \in 1..Len(ev) : \A n \in 1..(RendererOf(ev[k]) - 1) :
              \E i \in 1..(k - 1) : RendererOf(ev[i]) = n

\* a renderer in the middle of the order returned an error after the ones
\* before it had rendered
C26_Witness ==
    \E i \in RendererErrors(cardJob) :
        /\ RendererOf(cardJob.events[i]) \in 4..7
        /\ \E k \in 1..(i - 1) : RendererOf(cardJob.events[k]) = 1
        /\ cardJob.err /\ ~cardJob.exit

(***************************************************************************)
(* Failures of the board-level exports.                                    *)
(***************************************************************************)
\* what a step of the label or member export does: a failed write of the
\* file sets errorWarnOnCompletion and returns with no card fetched, no cache
\* and no worker; every other outcome, a failed fetch too, leaves the flag
\* alone and goes on to the next export or to the cards
ExportStep ==
    pc \in {"labels", "members"} /\ pc' # pc =>
        IF "critical" \in failures'
        THEN /\ pc' = "done" /\ errorWarnOnCompletion'
             /\ cards' = <<>> /\ listCache' = {} /\ workers' = EmptyBag
        ELSE /\ pc' = (IF pc = "labels" THEN "members" ELSE "cards")
             /\ errorWarnOnCompletion' = errorWarnOnCompletion
             /\ alive'

\* what the step of the background image does once the directories exist:
\* the board goes on to its labels
BackgroundStep ==
    pc = "board" /\ "mkdir" \notin failures' /\ failures' # failures =>
        alive' /\ pc' = "labels"

\* C27: in dumpABoard a failed fetch of the board's labels or members is
\* logged and the export goes on towards the cards; a failed write of
\* BoardLabels.md or BoardMembers.md sets the run-status flag and returns
\* before a card is fetched or a worker started; a failed download of the
\* background image never stops the board.
C27_BoardExportFailures == [][ExportStep /\ BackgroundStep]_vars

(***************************************************************************)
(* A classification that fails.                                            *)
(***************************************************************************)
\* what a job did apart from asking for the card's role
ApartFromRole(js) ==
    [js EXCEPT !.events =
        SelectSeq(js.events, LAMBDA ev : ~(ev.op = "fetch" /\ ev.arg = "cardRole"))]

\* the call of isLinkCard returned an error in the job that has run
RoleFailed ==
    /\ cardJob # NewJob
    /\ \E i \in 1..Len(cardJob.events) :
          /\ cardJob.events[i].op = "fetch"
          /\ cardJob.events[i].arg = "cardRole"
          /\ ~cardJob.events[i].ok

\* C30: a failure of isLinkCard never fails the job and never sets the
\* run-status flag: the error is discarded and the card is processed as a
\* regular card, with the events, the result and the flag of the same card
\* classified as regular, and nothing of a link card.
C30_ClassificationFailureIgnored ==
    RoleFailed =>
        LET regular == processSingleCard(cardCached, [cardEnv EXCEPT !.role = "regular"])
            ev == cardJob.events
        IN  /\ ApartFromRole(cardJob) = ApartFromRole(regular)
            /\ \A i \in 1..Len(ev) : ev[i].arg \notin {"Link Cards Only", "CARD.md"}
            /\ \A i \in 1..Len(ev) :
                  ev[i].op = "fetch" /\ ev[i].arg = "cardRole" /\ i < Len(ev)
                      => ev[i + 1].op \notin {"handle", "flag"}
            /\ (\A i \in 1..Len(ev) :
                    ev[i].ok \/ (ev[i].op = "fetch" /\ ev[i].arg = "cardRole"))
                  => /\ ~cardJob.err /\ ~cardJob.exit
                     /\ \A i \in 1..Len(ev) : ev[i].op # "flag"

\* the classification failed and the card was exported as a regular card
\* with a nil result
C30_Witness ==
    /\ RoleFailed
    /\ cardEnv.role = "error"
    /\ Present(cardJob, "card") /\ Present(cardJob, "CardDescription.md")
    /\ ~cardJob.err /\ ~cardJob.exit

(***************************************************************************)
(* The buffer pool: jobs that run side by side, each with the calls of     *)
(* getBuffer and putBuffer and the writes into the buffer that             *)
(* processSingleCard makes.  sync.Pool hands out any buffer it holds or a  *)
(* new one, and may drop a buffer it holds at any time.                    *)
(***************************************************************************)
\* putBuffer keeps a buffer of at most this capacity
BufferLimit == 64 * 1024

\* lengths and capacities a buffer can take
BufferSizes == {1, BufferLimit, BufferLimit + 1}

\* &bytes.Buffer{}
NewBuffer == [len |-> 0, cap |-> 0]

\* a getBuffer that leaves the bytes of the last job in the buffer
KeepBytes(buf) == buf

\* buf.Reset(): the length is zero, the capacity stays
Reset(buf) == [buf EXCEPT !.len = 0]

\* the files that are written from the buffer
BufferWrites ==
    {"attachments/URL-Attachments.md", "checklists", "CardComments.md",
     "CardUsers.md", "CardLabels.md", "CardHistory.md"}

BufferStep(ev) ==
    CASE ev.op = "getBuffer" -> "get"
      [] ev.op = "putBuffer" -> "put"
      [] ev.op = "write" /\ ev.arg \in BufferWrites -> "use"
      [] OTHER -> "none"

\* what a job does with its buffer, one "use" for the writes in a row
RECURSIVE BufferSteps(_)
BufferSteps(events) ==
    IF events = <<>> THEN <<>>
    ELSE LET step == BufferStep(Head(events))
             rest == BufferSteps(Tail(events))
         IN  IF step = "none" THEN rest
             ELSE IF step = "use" /\ rest # <<>> /\ Head(rest) = "use" THEN rest
             ELSE <<step>> \o rest

BufferUses ==
    { [steps |-> BufferSteps(processSingleCard(c, e).events),
       exit |-> processSingleCard(c, e).exit] : c \in BOOLEAN, e \in CardEnvs }

PoolInit ==
    /\ PipeInit
    /\ CardIdle
    /\ OneBoard
    /\ PathIdle
    /\ PoolIdle
    /\ LoadIdle

\* the next step of the job in slot s
NextStep(s) == IF running[s].steps = <<>> THEN "none" ELSE Head(running[s].steps)

Stepped(job, step) == [job EXCEPT !.steps = Tail(@), !.last = step]

\* a worker takes a job: processSingleCard is called
PoolStart ==
    /\ poolUp /\ poolRuns < MaxPoolRuns
    /\ \E s \in 1..MaxPoolJobs, u \in BufferUses :
          /\ running[s] = NoBufferJob
          /\ running' = [running EXCEPT
                            ![s] = BufferJob(u.steps, u.exit, 0, 0, 0, "none")]
    /\ poolRuns' = poolRuns + 1
    /\ UNCHANGED <<bufferPool, buffers, discarded, reused, poolUp>>
    /\ UNCHANGED <<pipeVars, cardVars, mainVars, pathVars, loadVars>>

\* getBuffer(): bufferPool.Get() gives a buffer of the pool or a new one,
\* then buf.Reset()
PoolGet ==
    /\ poolUp
    /\ \E s \in 1..MaxPoolJobs :
          /\ NextStep(s) = "get"
          /\ \/ \E b \in bufferPool :
                   /\ bufferPool' = bufferPool \ {b}
                   /\ buffers' = [buffers EXCEPT ![b] = Reset(@)]
                   /\ reused' = reused \cup {b}
                   /\ running' = [running EXCEPT
                          ![s] = [Stepped(@, "get") EXCEPT !.buf = b, !.gets = @ + 1]]
             \/ /\ Len(buffers) < MaxBuffers
                /\ buffers' = Append(buffers, Reset(NewBuffer))
                /\ running' = [running EXCEPT
                       ![s] = [Stepped(@, "get") EXCEPT !.buf = Len(buffers) + 1,
                                                        !.gets = @ + 1]]
                /\ UNCHANGED <<bufferPool, reused>>
    /\ UNCHANGED <<discarded, poolRuns, poolUp>>
    /\ UNCHANGED <<pipeVars, cardVars, mainVars, pathVars, loadVars>>

\* a renderer: buff.Reset(), buff.WriteString(...) as often as the card
\* demands; the capacity never shrinks
PoolUse ==
    /\ poolUp
    /\ \E s \in 1..MaxPoolJobs :
          /\ NextStep(s) = "use"
          /\ \E size \in BufferSizes, cap \in BufferSizes :
                /\ cap >= size /\ cap >= buffers[running[s].buf].cap
                /\ buffers' = [buffers EXCEPT
                       ![running[s].buf] = [Reset(@) EXCEPT !.len = size, !.cap = cap]]
          /\ running' = [running EXCEPT ![s] = Stepped(@, "use")]
    /\ UNCHANGED <<bufferPool, discarded, reused, poolRuns, poolUp>>
    /\ UNCHANGED <<pipeVars, cardVars, mainVars, pathVars, loadVars>>

\* putBuffer(buf): nothing for a buffer above the limit, else bufferPool.Put
PoolPut ==
    /\ poolUp
    /\ \E s \in 1..MaxPoolJobs :
          /\ NextStep(s) = "put"
          /\ IF buffers[running[s].buf].cap > BufferLimit
             THEN /\ discarded' = discarded \cup {running[s].buf}
                  /\ UNCHANGED bufferPool
             ELSE /\ bufferPool' = bufferPool \cup {running[s].buf}
                  /\ UNCHANGED discarded
          /\ running' = [running EXCEPT ![s] = [Stepped(@, "put") EXCEPT !.puts = @ + 1]]
    /\ UNCHANGED <<buffers, reused, poolRuns, poolUp>>
    /\ UNCHANGED <<pipeVars, cardVars, mainVars, pathVars, loadVars>>

\* processSingleCard has returned
PoolReturn ==
    /\ poolUp
    /\ \E s \in 1..MaxPoolJobs :
          /\ running[s] # NoBufferJob
          /\ running[s].steps = <<>> /\ ~running[s].exit
          /\ running' = [running EXCEPT ![s] = NoBufferJob]
    /\ UNCHANGED <<bufferPool, buffers, discarded, reused, poolRuns, poolUp>>
    /\ UNCHANGED <<pipeVars, cardVars, mainVars, pathVars, loadVars>>

\* os.Exit(1) in dirCreate: the deferred putBuffer does not run
PoolExit ==
    /\ poolUp
    /\ \E s \in 1..MaxPoolJobs :
          /\ running[s] # NoBufferJob
          /\ running[s].steps = <<>> /\ running[s].exit
    /\ poolUp' = FALSE
    /\ UNCHANGED <<bufferPool, buffers, running, discarded, reused, poolRuns>>
    /\ UNCHANGED <<pipeVars, cardVars, mainVars, pathVars, loadVars>>

\* sync.Pool drops a buffer it holds
PoolDrop ==
    /\ poolUp
    /\ \E b \in bufferPool : bufferPool' = bufferPool \ {b}
    /\ UNCHANGED <<buffers, running, discarded, reused, poolRuns, poolUp>>
    /\ UNCHANGED <<pipeVars, cardVars, mainVars, pathVars, loadVars>>

PoolNext ==
    PoolStart \/ PoolGet \/ PoolUse \/ PoolPut \/ PoolReturn \/ PoolExit \/ PoolDrop

SpecPool == PoolInit /\ [][PoolNext]_vars

\* the job in slot s has a buffer and has steps left
Holding(s) == running[s].buf # 0 /\ running[s].steps # <<>>

\* C23: a job takes one buffer from the pool, as its first step, and gives
\* it back once, as its last step, on every path on which processSingleCard
\* returns (list lookup error, link card, sub-resource error, success); a
\* buffer a running job holds is not in the pool and is held by no other
\* running job.
C23_OneBufferPerJob ==
    /\ \A u \in BufferUses :
          /\ Head(u.steps) = "get"
          /\ ~u.exit => u.steps[Len(u.steps)] = "put"
    /\ \A s \in 1..MaxPoolJobs :
          LET j == running[s]
          IN  /\ j.gets <= 1 /\ j.puts <= j.gets
              /\ j.last # "none" => j.gets = 1
              /\ j # NoBufferJob /\ j.steps = <<>> /\ ~j.exit
                    => j.gets = 1 /\ j.puts = 1 /\ j.last = "put"
              /\ Holding(s) =>
                    /\ j.buf \notin bufferPool
                    /\ \A t \in 1..MaxPoolJobs \ {s} :
                          Holding(t) => running[t].buf # j.buf

\* two jobs run side by side, one with a buffer another job gave back
C23_Witness ==
    /\ \A s \in 1..MaxPoolJobs : Holding(s) /\ running[s].last = "use"
    /\ \E s \in 1..MaxPoolJobs : running[s].buf \in reused

\* C24: whatever calls of getBuffer and putBuffer went before, getBuffer
\* gives a buffer of length zero; a buffer whose capacity is above 64 KiB
\* when it is released is not put into the pool and no later getBuffer
\* gives it.
C24_CleanBufferBoundedPool ==
    /\ \A s \in 1..MaxPoolJobs :
          running[s].last = "get"
              => /\ buffers[running[s].buf].len = 0
                 /\ running[s].buf \notin discarded
    /\ discarded \cap bufferPool = {}
    /\ \A b \in discarded : buffers[b].cap > BufferLimit
    /\ \A b \in bufferPool : buffers[b].cap <= BufferLimit

\* getBuffer has given a buffer that an earlier job filled, and a buffer
\* above the limit was released
C24_Witness ==
    /\ discarded # {}
    /\ \E s \in 1..MaxPoolJobs :
          /\ running[s].last = "get"
          /\ running[s].buf \in reused
          /\ buffers[running[s].buf].cap = BufferLimit
          /\ buffers[running[s].buf].len = 0

(***************************************************************************)
(* The worker pool under more cards than workers.  The jobs are numbers:   *)
(* what a job does is left out, where every goroutine stands is kept.      *)
(***************************************************************************)
\* a pool with one worker for every card
WorkerPerCard(n) == n

\* for i := 0; i < MaxWorkers; i++ { wg.Add(1); go func() {...}() }
WorkersFor(n) == MaxWorkers

\* channels with room for one item for every worker
ChannelPerWorker(n) == MaxWorkers

\* make(chan CardProcessingJob, numCards), make(chan error, numCards)
ChannelCapacity(n) == n

LoadInit ==
    /\ PipeInit
    /\ CardIdle
    /\ OneBoard
    /\ PathIdle
    /\ PoolIdle
    /\ \E n \in 1..MaxLoad : load = [NoLoad EXCEPT !.numCards = n, !.at = "spawn"]

LoadOthers == <<pipeVars, cardVars, mainVars, pathVars, poolVars>>

\* the channels, the workers, the dispatcher and the closer are started
LoadSpawn ==
    /\ load.up /\ load.at = "spawn"
    /\ load' = [load EXCEPT !.recv = WorkersFor(load.numCards), !.at = "drain"]
    /\ UNCHANGED LoadOthers

\* jobs <- CardProcessingJob{...}
LoadSend ==
    /\ load.up /\ load.at # "spawn"
    /\ load.sent < load.numCards /\ load.jobs < ChannelCapacity(load.numCards)
    /\ load' = [load EXCEPT !.jobs = @ + 1, !.sent = @ + 1]
    /\ UNCHANGED LoadOthers

\* defer close(jobs)
LoadCloseJobs ==
    /\ load.up /\ load.at # "spawn"
    /\ load.sent = load.numCards /\ ~load.jobsClosed
    /\ load' = [load EXCEPT !.jobsClosed = TRUE]
    /\ UNCHANGED LoadOthers

\* for job := range jobs: a job
LoadRecv ==
    /\ load.up
    /\ load.recv > 0 /\ load.jobs > 0
    /\ load' = [load EXCEPT !.jobs = @ - 1, !.recv = @ - 1, !.process = @ + 1]
    /\ UNCHANGED LoadOthers

\* for job := range jobs: the channel is closed and empty, wg.Done
LoadLeave ==
    /\ load.up
    /\ load.recv > 0 /\ load.jobs = 0 /\ load.jobsClosed
    /\ load' = [load EXCEPT !.recv = @ - 1, !.exited = @ + 1]
    /\ UNCHANGED LoadOthers

\* err := processSingleCard(job), which may end the process in dirCreate
LoadProcess ==
    /\ load.up
    /\ load.process > 0
    /\ \/ load' = [load EXCEPT !.process = @ - 1, !.send = @ + 1]
       \/ load' = [load EXCEPT !.up = FALSE]
    /\ UNCHANGED LoadOthers

\* results <- err, then atomic.AddInt64 and the next turn of the loop
LoadResult ==
    /\ load.up
    /\ load.send > 0 /\ load.results < ChannelCapacity(load.numCards)
    /\ ~load.resultsClosed
    /\ load' = [load EXCEPT !.send = @ - 1, !.results = @ + 1, !.recv = @ + 1]
    /\ UNCHANGED LoadOthers

\* wg.Wait(); close(results)
LoadCloseResults ==
    /\ load.up /\ load.at # "spawn"
    /\ load.recv + load.process + load.send = 0 /\ ~load.resultsClosed
    /\ load' = [load EXCEPT !.resultsClosed = TRUE]
    /\ UNCHANGED LoadOthers

\* for i := 0; i < numCards; i++ { <-results }
LoadDrain ==
    /\ load.up /\ load.at = "drain"
    /\ load.results > 0
    /\ load' = [load EXCEPT !.results = @ - 1, !.taken = @ + 1,
                            !.at = IF load.taken + 1 = load.numCards THEN "done"
                                   ELSE "drain"]
    /\ UNCHANGED LoadOthers

LoadNext ==
    \/ LoadSpawn \/ LoadSend \/ LoadCloseJobs \/ LoadRecv \/ LoadLeave
    \/ LoadProcess \/ LoadResult \/ LoadCloseResults \/ LoadDrain

SpecLoad == LoadInit /\ [][LoadNext]_vars

\* the worker goroutines launched so far
Launched == load.recv + load.process + load.send + load.exited

\* C25: MaxWorkers workers are launched per board, whatever the number of
\* cards; a job a worker has pulled is being rendered, is about to be pushed
\* or has been pushed as a result, a worker leaves its loop only when the
\* jobs channel is closed and empty, and at every moment at most MaxWorkers
\* jobs are being processed.
C25_FixedWorkerPool ==
    /\ load.at = "spawn" => Launched = 0
    /\ load.at \in {"drain", "done"} => Launched = MaxWorkers
    /\ load.process + load.send <= MaxWorkers
    /\ load.sent = load.jobs + load.process + load.send + load.results + load.taken
    /\ load.exited > 0 => load.jobsClosed /\ load.jobs = 0

\* more cards than workers: every worker renders a job and jobs wait
C25_Witness ==
    /\ load.numCards > MaxWorkers
    /\ load.process = MaxWorkers
    /\ load.jobs > 0

\* C28: the jobs and the results channel never hold more than N items, N the
\* number of cards, so the dispatcher about to send a job and a worker about
\* to send a result always find room; the dispatcher sends nothing once the
\* jobs channel is closed, and while a worker may still send a result the
\* results channel is open.
C28_SendsNeverBlock ==
    /\ load.jobs <= load.numCards /\ load.results <= load.numCards
    /\ load.at # "spawn" /\ load.sent < load.numCards =>
          load.jobs < ChannelCapacity(load.numCards) /\ ~load.jobsClosed
    /\ load.send > 0 => load.results < ChannelCapacity(load.numCards)
    /\ load.recv + load.process + load.send > 0 => ~load.resultsClosed

\* more cards than workers, nothing received yet by the run loop: a worker
\* is about to send the last result
C28_Witness ==
    /\ load.numCards > MaxWorkers
    /\ load.send > 0 /\ load.results = load.numCards - 1
    /\ load.jobsClosed

(***************************************************************************)
(* The run-status flag over the boards of a run.                           *)
(***************************************************************************)
\* processCardsConcurrently has returned: dumpABoard is over on a board
\* that had cards
Returned == pc = "done" /\ numCards > 0

\* a job of the call delivered a non-nil result
NonNilDelivered == \E j \in 1..numCards : Delivered(j) > 0 /\ history[j].err

\* C29: errorWarnOnCompletion is never reset, within a board or from one
\* board to the next; when processCardsConcurrently returns, the flag is true
\* exactly if it was true when the call began or a job delivered a non-nil
\* result; and a worker that sets the flag has a job that returns a non-nil
\* error.
C29_FlagMonotonic ==
    [][/\ errorWarnOnCompletion => errorWarnOnCompletion'
       /\ Returned' =>
             (errorWarnOnCompletion' <=> (flagAtCall' \/ NonNilDelivered'))
       /\ \A w \in WorkersAt("flag") : w.err
       /\ \A j \in 1..numCards : history[j].flagged /\ Delivered(j) > 0
                                     => history[j].err]_vars

\* the second board has returned with no failed job and the flag still set
\* by the first
C29_Witness ==
    /\ bi = 2 /\ Returned
    /\ flagAtCall /\ ~NonNilDelivered
    /\ errorWarnOnCompletion

====
